---- MODULE Spec2Model ----
(***************************************************************************)
(* State-machine model of ProjectKnowledgeGraph (src/src/index.ts,         *)
(* lines 555-761): discovery of source files, extraction of module         *)
(* references, path resolution, the recording of symmetric edges and the   *)
(* two queries; and of the thought journal of SequentialThinkingServer     *)
(* (src/src/lib.ts).                                                       *)
(*                                                                         *)
(* Paths.  A path string is modelled by its parse: an absolute path is a   *)
(* sequence of segments and a segment is a sequence of tokens whose        *)
(* concatenation is the segment's text.  A token is either a dot-free stem *)
(* ("utils"), the special segments "." and "..", or an extension (".ts").  *)
(* "/app/src/lib.js" is << <<"app">>, <<"src">>, <<"lib", ".js">> >>.      *)
(* String operations of the code (concatenation of a suffix, endsWith,     *)
(* replace of a trailing ".js") are operations on the last tokens.         *)
(***************************************************************************)
EXTENDS Integers, Sequences, FiniteSets, TLC

\* ------------------------------------------------------------------ bounds

\* Number of build calls made on the graph object in one run.
MaxCalls == 3

\* Number of build calls that may be in flight together.
MaxOverlap == 2

\* Largest set of discovered files the resolver is exercised on.
MaxFiles == 3

Calls == 1..MaxCalls

\* Number of calls made on the thought journal in one run.
MaxJournalCalls == 2

JCalls == 1..MaxJournalCalls

\* Number of build calls in a run in which the graph is also queried.
MaxQueriedCalls == 2

\* Largest graph getSummary is exercised on: its nodes and its edges.
MaxNodes == 6

MaxEdges == 2

\* ------------------------------------------------------------------- paths

Last(s) == s[Len(s)]

Front(s) == SubSeq(s, 1, Len(s) - 1)

Range(seq) == {seq[i] : i \in 1..Len(seq)}

\* null: the resolver's "unresolved" result (never a file: it denotes "/").
NoPath == << >>

\* Tokens that begin with the character "."
DotTokens == {".", "..", ".ts", ".js", ".tsx", ".jsx", ".json", ".md"}

\* A module specifier as written in the source text: absolute or not, and
\* its segments.  './utils' is [abs |-> FALSE, segs |-> <<Dot, <<"utils">>>>].
Ref(abs, segs) == [abs |-> abs, segs |-> segs]

\* path.dirname of a file path
Dirname(p) == Front(p)

\* path.resolve's normalisation: "." is dropped, ".." pops a segment.
RECURSIVE Normalize(_, _)
Normalize(acc, segs) ==
    IF segs = << >> THEN acc
    ELSE LET s == Head(segs)
         IN  Normalize(IF s = <<".">> THEN acc
                       ELSE IF s = <<"..">>
                            THEN (IF acc = << >> THEN acc ELSE Front(acc))
                            ELSE Append(acc, s),
                       Tail(segs))

\* path.resolve(dir, relativePath) for an absolute, normalised dir
PathResolve(dir, ref) ==
    IF ref.abs THEN Normalize(<< >>, ref.segs) ELSE Normalize(dir, ref.segs)

\* importPath.startsWith('.')
StartsWithDot(ref) ==
    /\ ~ref.abs
    /\ ref.segs # << >>
    /\ Head(Head(ref.segs)) \in DotTokens

\* absolutePath + ext, for ext an extension such as '.ts'
AppendExt(p, ext) ==
    IF p = << >> THEN << <<ext>> >>
    ELSE [p EXCEPT ![Len(p)] = Append(@, ext)]

\* absolutePath + '/index' + ext
AppendIndex(p, ext) == Append(p, <<"index", ext>>)

\* absolutePath.endsWith('.js')
EndsWithJs(p) == p # << >> /\ Last(Last(p)) = ".js"

\* absolutePath.replace(/\.js$/, ext)
ReplaceJs(p, ext) == [p EXCEPT ![Len(p)] = Append(Front(@), ext)]

\* /\.(ts|js|tsx|jsx|json)$/.test(entry.name)
IsSourceName(name) == Last(name) \in {".ts", ".js", ".tsx", ".jsx", ".json"}

\* entry.name === 'node_modules' || entry.name === '.git' || entry.name === 'dist'
IsExcludedDir(name) == name \in {<<"node_modules">>, <<".git">>, <<"dist">>}

\* ---------------------------------------------------------------- the disk

App == << <<"app">> >>
Src == << <<"app">>, <<"src">> >>
Mods == << <<"app">>, <<"node_modules">> >>
Cov == << <<"app">>, <<"coverage">> >>

AppIndex == Append(App, <<"index", ".ts">>)
AppUtils == Append(App, <<"utils", ".ts">>)
SrcLib == Append(Src, <<"lib", ".ts">>)
SrcUtils == Append(Src, <<"utils", ".ts">>)
CovSorter == Append(Cov, <<"sorter", ".js">>)

Entry(name, isDir) == [name |-> name, isDir |-> isDir]

\* fs.readdir(dir, {withFileTypes: true}) of the project tree the builds scan
Listing(dir) ==
    CASE dir = App ->
            << Entry(<<"coverage">>, TRUE), Entry(<<"index", ".ts">>, FALSE),
               Entry(<<"node_modules">>, TRUE), Entry(<<"README", ".md">>, FALSE),
               Entry(<<"src">>, TRUE), Entry(<<"utils", ".ts">>, FALSE) >>
      [] dir = Src ->
            << Entry(<<"lib", ".ts">>, FALSE), Entry(<<"utils", ".ts">>, FALSE) >>
      [] dir = Mods ->
            << Entry(<<"dep", ".js">>, FALSE) >>
      [] dir = Cov ->
            << Entry(<<"sorter", ".js">>, FALSE) >>
      [] OTHER -> << >>

\* The roots a build is called with
Roots == {App, Src}

\* The files of the tree that have text
DiskFiles == {AppIndex, AppUtils, SrcLib, SrcUtils, CovSorter}

\* One syntactic item of a file's text, as the parser sees it.
Item(kind, ref, name) == [kind |-> kind, ref |-> ref, name |-> name]

Dot == <<".">>
DotDot == <<"..">>
NoRef == Ref(FALSE, << >>)

Import(segs) == Item("import", Ref(FALSE, segs), "")
ReExport(segs) == Item("export", Ref(FALSE, segs), "")
Dynamic(segs) == Item("dynamic", Ref(FALSE, segs), "")
Require(segs) == Item("require", Ref(FALSE, segs), "")
Comment(segs) == Item("comment", Ref(FALSE, segs), "")
StringLit(segs) == Item("string", Ref(FALSE, segs), "")
ExportFn(name) == Item("function", NoRef, name)
ExportClass(name) == Item("class", NoRef, name)
ExportVar(name) == Item("var", NoRef, name)

\* The texts each file of the tree may hold
Texts(f) ==
    CASE f = AppIndex ->
            { << Import(<<Dot, <<"utils">>>>), Comment(<<Dot, <<"src">>, <<"lib">>>>),
                 Import(<<Dot, <<"utils", ".js">>>>) >>,
              << Import(<<<<"src">>, <<"utils">>>>), Require(<<<<"dep">>>>),
                 Dynamic(<<Dot, <<"src">>, <<"lib">>>>) >> }
      [] f = SrcLib ->
            { << ExportFn("run"), Import(<<<<"src">>, <<"utils">>>>),
                 Import(<<DotDot, <<"utils">>>>) >>,
              << ReExport(<<DotDot, <<"index">>>>), Import(<<Dot, <<"lib">>>>) >> }
      [] f = SrcUtils ->
            { << ExportClass("Box") >>,
              << Import(<<Dot, <<"lib", ".js">>>>) >> }
      [] f = AppUtils ->
            { << ExportVar("something") >>,
              << StringLit(<<Dot, <<"index">>>>), Import(<<Dot, <<"index", ".ts">>>>) >> }
      [] f = CovSorter ->
            { << >> }

\* --------------------------------------------------------- source analysis

\* A textual search: whatever reads like an import is taken for one
IsReferenceTextual(item) ==
    item.kind \in {"import", "export", "dynamic", "require", "comment", "string"}

\* The four tests of visit(): ts.isImportDeclaration, ts.isExportDeclaration
\* with a moduleSpecifier, and the call expressions import('...') and
\* require('...') whose first argument is a string literal.
IsReference(item) == item.kind \in {"import", "export", "dynamic", "require"}

IsSymbol(item) == item.kind \in {"function", "class", "var"}

\* The imports array filled by visit(): the module specifiers of import and
\* export declarations, import('...') and require('...') calls, in text order.
RECURSIVE ExtractImports(_)
ExtractImports(text) ==
    IF text = << >> THEN << >>
    ELSE IF IsReference(Head(text))
         THEN <<Head(text).ref>> \o ExtractImports(Tail(text))
         ELSE ExtractImports(Tail(text))

\* The symbols array filled by visit(): `${kind}:${name}` of each exported
\* function, class and variable.
RECURSIVE ExtractSymbols(_)
ExtractSymbols(text) ==
    IF text = << >> THEN << >>
    ELSE IF IsSymbol(Head(text))
         THEN << <<Head(text).kind, Head(text).name>> >> \o ExtractSymbols(Tail(text))
         ELSE ExtractSymbols(Tail(text))

\* ------------------------------------------------------------- graph store

\* The Map<string, FileNode> is a sequence of nodes in insertion order.  The
\* field obj names the object: the build call that allocated the node.

\* 0 when the map has no such key
IndexOf(ns, p) ==
    LET S == {i \in 1..Len(ns) : ns[i].path = p}
    IN  IF S = {} THEN 0 ELSE CHOOSE i \in S : \A j \in S : i <= j

\* A has() that answers true for every key
HasNodeAlways(ns, p) == TRUE

\* this.nodes.has(p)
HasNode(ns, p) == IndexOf(ns, p) # 0

\* array.includes(p)
Includes(seq, p) == \E i \in 1..Len(seq) : seq[i] = p

\* A clear() that is missing: the previous graph is kept
ClearNodesKept(ns) == ns

\* this.nodes.clear()
ClearNodes(ns) == << >>

\* The node literal of step 1
FreshNode(file, c) ==
    [path |-> file, imports |-> << >>, importedBy |-> << >>, symbols |-> << >>,
     obj |-> c]

\* this.nodes.set(n.path, n): an existing key keeps its place in the order
MapSet(ns, n) ==
    IF IndexOf(ns, n.path) # 0 THEN [ns EXCEPT ![IndexOf(ns, n.path)] = n]
    ELSE Append(ns, n)

\* Step 1 that leaves out the last discovered file
RECURSIVE InitNodesShort(_, _, _)
InitNodesShort(ns, files, c) ==
    IF Len(files) <= 1 THEN ns
    ELSE InitNodesShort(MapSet(ns, FreshNode(Head(files), c)), Tail(files), c)

\* Step 1: Initialize nodes
RECURSIVE InitNodes(_, _, _)
InitNodes(ns, files, c) ==
    IF files = << >> THEN ns
    ELSE InitNodes(MapSet(ns, FreshNode(Head(files), c)), Tail(files), c)

\* Edge recording that forgets the reverse edge
RecordEdgeOneWay(ns, live, filePath, resolvedPath) ==
    IF resolvedPath # NoPath /\ HasNode(ns, resolvedPath) /\ live
       /\ ~Includes(ns[IndexOf(ns, filePath)].imports, resolvedPath)
    THEN [ns EXCEPT ![IndexOf(ns, filePath)].imports = Append(@, resolvedPath)]
    ELSE ns

\* Edge recording without the includes() tests
RecordEdgeNoDedup(ns, live, filePath, resolvedPath) ==
    IF resolvedPath # NoPath /\ HasNode(ns, resolvedPath)
    THEN LET n1 == IF live
                   THEN [ns EXCEPT ![IndexOf(ns, filePath)].imports =
                                        Append(@, resolvedPath)]
                   ELSE ns
             j == IndexOf(n1, resolvedPath)
         IN  [n1 EXCEPT ![j].importedBy = Append(@, filePath)]
    ELSE ns

\* The body of the loop over imports once resolvePath has answered: both
\* appends, each suppressed when the value is already in the list.  live
\* says whether currentNode is still the object the map holds for filePath;
\* an append to an object the map dropped changes nothing in the graph.
RecordEdge(ns, live, filePath, resolvedPath) ==
    IF resolvedPath # NoPath /\ HasNode(ns, resolvedPath)
    THEN LET n1 == IF live /\ ~Includes(ns[IndexOf(ns, filePath)].imports,
                                        resolvedPath)
                   THEN [ns EXCEPT ![IndexOf(ns, filePath)].imports =
                                        Append(@, resolvedPath)]
                   ELSE ns
             j == IndexOf(n1, resolvedPath)
         IN  IF j # 0 /\ ~Includes(n1[j].importedBy, filePath)
             THEN [n1 EXCEPT ![j].importedBy = Append(@, filePath)]
             ELSE n1
    ELSE ns

\* ------------------------------------------------------------ path resolver

Suffix(index, ext) == [index |-> index, ext |-> ext]

\* A suffix list that lost its '.jsx' entry
extensionsNoJsx ==
    << Suffix(FALSE, ".ts"), Suffix(FALSE, ".js"), Suffix(FALSE, ".tsx"),
       Suffix(FALSE, ".json"), Suffix(TRUE, ".ts"), Suffix(TRUE, ".js") >>

\* ['.ts', '.js', '.tsx', '.jsx', '.json', '/index.ts', '/index.js']
extensions ==
    << Suffix(FALSE, ".ts"), Suffix(FALSE, ".js"), Suffix(FALSE, ".tsx"),
       Suffix(FALSE, ".jsx"), Suffix(FALSE, ".json"),
       Suffix(TRUE, ".ts"), Suffix(TRUE, ".js") >>

\* absolutePath + ext for an entry of extensions
AddSuffix(p, s) == IF s.index THEN AppendIndex(p, s.ext) ELSE AppendExt(p, s.ext)

\* A mapping that tries .jsx before .tsx
SiblingOfJsxFirst(ns, absolutePath) ==
    IF EndsWithJs(absolutePath)
    THEN IF HasNode(ns, ReplaceJs(absolutePath, ".ts"))
         THEN ReplaceJs(absolutePath, ".ts")
         ELSE IF HasNode(ns, ReplaceJs(absolutePath, ".jsx"))
              THEN ReplaceJs(absolutePath, ".jsx")
              ELSE IF HasNode(ns, ReplaceJs(absolutePath, ".tsx"))
                   THEN ReplaceJs(absolutePath, ".tsx")
                   ELSE NoPath
    ELSE NoPath

\* 3. the .js -> .ts mapping
SiblingOf(ns, absolutePath) ==
    IF EndsWithJs(absolutePath)
    THEN IF HasNode(ns, ReplaceJs(absolutePath, ".ts"))
         THEN ReplaceJs(absolutePath, ".ts")
         ELSE IF HasNode(ns, ReplaceJs(absolutePath, ".tsx"))
              THEN ReplaceJs(absolutePath, ".tsx")
              ELSE IF HasNode(ns, ReplaceJs(absolutePath, ".jsx"))
                   THEN ReplaceJs(absolutePath, ".jsx")
                   ELSE NoPath
    ELSE NoPath

\* A resolver that tries the sibling of a '.js' path before the suffixes
ResolvePathSiblingFirst(ns, dir, relativePath) ==
    LET absolutePath == PathResolve(dir, relativePath)
        hits == {i \in 1..Len(extensions) :
                    HasNode(ns, AddSuffix(absolutePath, extensions[i]))}
        first == CHOOSE i \in hits : \A j \in hits : i <= j
    IN  IF HasNode(ns, absolutePath) THEN absolutePath
        ELSE IF SiblingOf(ns, absolutePath) # NoPath
             THEN SiblingOf(ns, absolutePath)
             ELSE IF hits # {} THEN AddSuffix(absolutePath, extensions[first])
                  ELSE NoPath

\* resolvePath(dir, relativePath)
ResolvePath(ns, dir, relativePath) ==
    LET absolutePath == PathResolve(dir, relativePath)
        hits == {i \in 1..Len(extensions) :
                    HasNode(ns, AddSuffix(absolutePath, extensions[i]))}
        first == CHOOSE i \in hits : \A j \in hits : i <= j
    IN  IF HasNode(ns, absolutePath) THEN absolutePath
        ELSE IF hits # {} THEN AddSuffix(absolutePath, extensions[first])
             ELSE SiblingOf(ns, absolutePath)

\* A choice of directory that resolves every reference beside the file
ResolveFromOwnDir(root, filePath, importPath) == Dirname(filePath)

\* The directory parseFile hands to resolvePath
ResolveFrom(root, filePath, importPath) ==
    IF StartsWithDot(importPath) THEN Dirname(filePath) ELSE root

\* The pairs <<i, j>> such that the i-th node lists the j-th among its imports
ImportPairs(ns) ==
    {<<i, j>> \in (1..Len(ns)) \X (1..Len(ns)) : Includes(ns[i].imports, ns[j].path)}

\* ---------------------------------------------------------------- the state

VARIABLES
    nodes,       \* this.nodes: the Map, in insertion order
    rootDir,     \* this.rootDir
    content,     \* the disk: the text of each file
    unreadable,  \* the disk: the files whose read fails
    unlistable,  \* the disk: the directories whose listing fails
    call,        \* per build call: where it is suspended, and its locals
    query,       \* a resolvePath call made on its own: its arguments
    answer,      \* and what it returned
    asked,       \* the last getRelationships call: its argument
    reply,       \* and what it returned
    summary,     \* what the last getSummary call returned
    thoughtHistory,  \* SequentialThinkingServer: this.thoughtHistory
    branches,        \* this.branches, its keys in insertion order
    isSaving,        \* this.isSaving
    delayMs,         \* this.delayMs
    storage,         \* the journal's file, its .tmp file, and whether writes work
    save,            \* the saveHistory call in flight and the pending retry timers
    jcall,           \* per journal call: where it is suspended, and its locals
    fetch            \* the fetchWithRetry call: where it is suspended, and its locals

disk == <<content, unreadable, unlistable>>

resolver == <<query, answer>>

queries == <<asked, reply, summary>>

journal == <<thoughtHistory, branches, isSaving, delayMs, storage, save, jcall>>

graph == <<nodes, rootDir, call>>

network == <<fetch>>

vars == <<graph, disk, network, resolver, queries, journal>>

NoResult == [nodeCount |-> 0, totalFiles |-> 0]

\* A build call that has not been made
IdleCall ==
    [pc |-> "idle", arg |-> NoPath, todo |-> << >>, files |-> << >>, fi |-> 0,
     refs |-> << >>, ri |-> 0, resolved |-> NoPath, cur |-> 0,
     result |-> NoResult, snap |-> << >>]

NoQuery == [dir |-> NoPath, ref |-> NoRef]

\* null, the answer of getRelationships for a file that is not in the graph
NotFound == [found |-> FALSE]

NoSummary == [root |-> NoPath, fileCount |-> 0, mostReferencedFiles |-> << >>]

\* The outcome of one fetch: a thrown network error, or a response with its
\* status and its Retry-After header in seconds (0 when it has none)
Thrown == [thrown |-> TRUE, status |-> 0, retryAfter |-> 0]

Response(status, retryAfter) ==
    [thrown |-> FALSE, status |-> status, retryAfter |-> retryAfter]

\* fetchWithRetry has not been called
NoFetch ==
    [pc |-> "idle", retries |-> 0, backoff |-> 0, attempts |-> << >>,
     waits |-> << >>, result |-> Thrown]

\* No resolvePath, getRelationships, getSummary or fetchWithRetry call has
\* been made
NothingAsked ==
    /\ fetch = NoFetch
    /\ query = NoQuery
    /\ answer = NoPath
    /\ asked = NoRef
    /\ reply = NotFound
    /\ summary = NoSummary

\* The project tree: one text per file, and at most one fault, a file that
\* cannot be read or a directory that cannot be listed.
InitDisk ==
    /\ content \in {t \in [DiskFiles -> UNION {Texts(f) : f \in DiskFiles}] :
                       \A f \in DiskFiles : t[f] \in Texts(f)}
    /\ unreadable \in {{}, {AppIndex}, {SrcLib}}
    /\ unlistable \in {{}, {App}, {Src}, {Mods}}
    /\ unreadable = {} \/ unlistable = {}

\* new ProjectKnowledgeGraph()
InitGraph ==
    /\ nodes = << >>
    /\ rootDir = NoPath
    /\ call = [c \in Calls |-> IdleCall]

\* The saveHistory calls: one that a journal call awaits, per call, and under
\* 0 the one a retry timer began
Savers == 0..MaxJournalCalls

\* A saveHistory call that is not running
NoRun == [phase |-> "none", data |-> << >>]

\* No saveHistory call is in flight and no retry is scheduled
NoSave == [timers |-> 0, run |-> [w \in Savers |-> NoRun]]

\* An optional string field: absent, or the characters of the string given
Absent == << >>

Given(chars) == <<chars>>

\* A ThoughtData as the journal keeps it.  branchFromThought = 0 stands for
\* the absent field (a number given is 1 or more, index.ts 139).  obj tells
\* the objects apart: the number of the call whose argument it is, 0 for an
\* object made by JSON.parse or by archiveHistory.
Thought(text, number, total, from, id) ==
    [thought |-> text, thoughtNumber |-> number, totalThoughts |-> total,
     nextThoughtNeeded |-> TRUE, branchFromThought |-> from, branchId |-> id,
     obj |-> 0]

NoThought == Thought(<< >>, 0, 0, 0, Absent)

NoReport ==
    [isError |-> FALSE, thoughtNumber |-> 0, totalThoughts |-> 0,
     nextThoughtNeeded |-> FALSE, branches |-> << >>, thoughtHistoryLength |-> 0,
     newHistoryLength |-> 0, summaryInsertedAt |-> 0]

\* A journal call that has not been made
IdleJCall ==
    [pc |-> "idle", op |-> "none", given |-> NoThought, input |-> NoThought,
     range |-> <<0, 0>>, before |-> << >>, alone |-> TRUE, result |-> NoReport]

\* new SequentialThinkingServer() where no history file exists
InitJournal ==
    /\ thoughtHistory = << >>
    /\ branches = << >>
    /\ isSaving = FALSE
    /\ delayMs = 0
    /\ storage = [file |-> << >>, tmp |-> << >>, ok |-> TRUE]
    /\ save = NoSave
    /\ jcall = [j \in JCalls |-> IdleJCall]

Init ==
    /\ InitDisk
    /\ InitGraph
    /\ NothingAsked
    /\ InitJournal

\* ---------------------------------------------------------------- discovery

\* The loop of getAllFiles up to its next readdir: files are kept when their
\* name passes the extension test, excluded directories are skipped, and the
\* walk suspends in front of the next directory to list.
RECURSIVE Drain(_, _)
Drain(found, todo) ==
    IF todo = << >> THEN [found |-> found, todo |-> todo]
    ELSE LET e == Head(todo)
         IN  IF e.isDir
             THEN IF IsExcludedDir(Last(e.path))
                  THEN Drain(found, Tail(todo))
                  ELSE [found |-> found, todo |-> todo]
             ELSE Drain(IF IsSourceName(Last(e.path))
                        THEN Append(found, e.path) ELSE found,
                        Tail(todo))

\* path.resolve(dir, entry.name) of every entry of a listing
Children(dir) ==
    [i \in 1..Len(Listing(dir)) |->
        [path |-> Append(dir, Listing(dir)[i].name),
         isDir |-> Listing(dir)[i].isDir]]

\* ------------------------------------------------------------------- build

\* What follows the analysis of one file: the next parseFile call's read, or
\* the return of build with its result record.
AfterFile(cr, ns) ==
    IF cr.fi < Len(cr.files)
    THEN [cr EXCEPT !.pc = "read", !.fi = @ + 1, !.refs = << >>, !.ri = 0,
                    !.resolved = NoPath, !.cur = 0]
    ELSE [cr EXCEPT !.pc = "done", !.refs = << >>, !.ri = 0,
                    !.resolved = NoPath, !.cur = 0,
                    !.result = [nodeCount |-> Len(ns),
                                totalFiles |-> Len(cr.files)],
                    !.snap = ns]

Active(c) == call[c].pc \in {"readdir", "read", "edge"}

\* The promise of build is rejected: nothing is returned to the caller
Rejected(cr) ==
    [cr EXCEPT !.pc = "failed", !.todo = << >>, !.refs = << >>, !.ri = 0,
               !.resolved = NoPath, !.cur = 0]

\* build(rootDir) up to its first suspension: the root is stored, the map is
\* cleared and the listing of the root is requested.
BuildBegin(c, r) ==
    /\ call[c].pc = "idle"
    /\ \A d \in Calls : d < c => call[d].pc # "idle"
    /\ rootDir' = r
    /\ nodes' = ClearNodes(nodes)
    /\ call' = [call EXCEPT ![c] =
                   [@ EXCEPT !.pc = "readdir", !.arg = r,
                             !.todo = << [path |-> r, isDir |-> TRUE] >>]]
    /\ UNCHANGED <<disk, network, resolver, queries, journal>>

\* A build called while no other build is in flight
Build(c, r) ==
    /\ \A d \in Calls : ~Active(d)
    /\ BuildBegin(c, r)

\* A build called whatever the other calls are doing
BuildOverlapping(c, r) ==
    /\ c <= MaxOverlap
    /\ BuildBegin(c, r)

\* A readdir has answered with entries: the walk goes on to its next readdir
\* or, when the walk is over, step 1 initialises the nodes and the first
\* file's read is asked.
Listed(c, entries) ==
    LET cr == call[c]
        r == Drain(cr.files, entries \o Tail(cr.todo))
        ns == InitNodes(nodes, r.found, c)
    IN  IF r.todo = << >>
        THEN /\ nodes' = ns
             /\ call' = [call EXCEPT ![c] =
                            AfterFile([cr EXCEPT !.files = r.found,
                                                 !.todo = << >>, !.fi = 0],
                                      ns)]
        ELSE /\ nodes' = nodes
             /\ call' = [call EXCEPT ![c] =
                            [cr EXCEPT !.files = r.found, !.todo = r.todo]]

\* A walk that takes a directory it cannot list for an empty one
ListFailedSkipped(c) == Listed(c, << >>)

\* A readdir has failed: nothing in getAllFiles or build catches it, every
\* pending level of the walk is abandoned and build is rejected.
ListFailed(c) ==
    /\ nodes' = nodes
    /\ call' = [call EXCEPT ![c] = Rejected(@)]

\* A readdir answers
ReadDir(c) ==
    /\ call[c].pc = "readdir"
    /\ IF Head(call[c].todo).path \in unlistable
       THEN ListFailed(c)
       ELSE Listed(c, Children(Head(call[c].todo).path))
    /\ UNCHANGED <<rootDir, disk, network, resolver, queries, journal>>

\* A parseFile without its try/catch: the failed read rejects build
ReadFailedUncaught(c) ==
    /\ nodes' = nodes
    /\ call' = [call EXCEPT ![c] = Rejected(@)]

\* A readFile has failed: the catch of parseFile logs the error, the file's
\* node is left as step 1 made it and build goes on to the next file.
ReadFailed(c) ==
    /\ nodes' = nodes
    /\ call' = [call EXCEPT ![c] = AfterFile(@, nodes)]

\* A readFile answers.  Otherwise than on a failure the text is parsed,
\* currentNode is fetched (parseFile returns when the map has none), its
\* symbols are set and resolvePath is called for the first import.
ReadFile(c) ==
    /\ call[c].pc = "read"
    /\ LET cr == call[c]
           f == cr.files[cr.fi]
           i == IndexOf(nodes, f)
           imps == ExtractImports(content[f])
           ns == [nodes EXCEPT ![i].symbols = ExtractSymbols(content[f])]
       IN  IF f \in unreadable
           THEN ReadFailed(c)
           ELSE IF i = 0
           THEN /\ nodes' = nodes
                /\ call' = [call EXCEPT ![c] = AfterFile(cr, nodes)]
           ELSE /\ nodes' = ns
                /\ call' = [call EXCEPT ![c] =
                       IF imps = << >> THEN AfterFile(cr, ns)
                       ELSE [cr EXCEPT !.pc = "edge", !.refs = imps, !.ri = 1,
                               !.cur = nodes[i].obj,
                               !.resolved =
                                   ResolvePath(ns, ResolveFrom(rootDir, f, imps[1]),
                                               imps[1])]]
    /\ UNCHANGED <<rootDir, disk, network, resolver, queries, journal>>

\* A loop over imports that gives the file up at the first null
NextImportStopsAtNull(cr, ns, root) ==
    LET f == cr.files[cr.fi]
        next == cr.refs[cr.ri + 1]
    IN  IF cr.ri < Len(cr.refs) /\ cr.resolved # NoPath
        THEN [cr EXCEPT !.ri = @ + 1,
                !.resolved = ResolvePath(ns, ResolveFrom(root, f, next), next)]
        ELSE AfterFile(cr, ns)

\* The loop over imports goes round: resolvePath is called for the next
\* import, whatever the last one resolved to, or the file is done.
NextImport(cr, ns, root) ==
    LET f == cr.files[cr.fi]
        next == cr.refs[cr.ri + 1]
    IN  IF cr.ri < Len(cr.refs)
        THEN [cr EXCEPT !.ri = @ + 1,
                !.resolved = ResolvePath(ns, ResolveFrom(root, f, next), next)]
        ELSE AfterFile(cr, ns)

\* An awaited resolvePath answers: the edge is recorded, and resolvePath is
\* called for the next import or the file is done.
RecordEdgeStep(c) ==
    /\ call[c].pc = "edge"
    /\ LET cr == call[c]
           f == cr.files[cr.fi]
           i == IndexOf(nodes, f)
           live == i # 0 /\ nodes[i].obj = cr.cur
           ns == RecordEdge(nodes, live, f, cr.resolved)
       IN  /\ nodes' = ns
           /\ call' = [call EXCEPT ![c] = NextImport(cr, ns, rootDir)]
    /\ UNCHANGED <<rootDir, disk, network, resolver, queries, journal>>

Next ==
    \E c \in Calls :
        \/ \E r \in Roots : Build(c, r)
        \/ ReadDir(c)
        \/ ReadFile(c)
        \/ RecordEdgeStep(c)

\* Builds run one after the other
Spec == Init /\ [][Next]_vars

NextOverlap ==
    \E c \in Calls :
        \/ \E r \in Roots : BuildOverlapping(c, r)
        \/ ReadDir(c)
        \/ ReadFile(c)
        \/ RecordEdgeStep(c)

\* Builds may be called while others are suspended
SpecOverlap == Init /\ [][NextOverlap]_vars

\* ------------------------------------------- phase two in any order

\* The orders a list of files can be put in
Orders(files) ==
    {o \in [1..Len(files) -> Range(files)] :
        \A i, j \in 1..Len(files) : i # j => o[i] # o[j]}

\* A readdir answers, in a build whose second phase may take the files in
\* any order (a pool of workers instead of the loop of lines 578-580):
\* step 1 initialises the nodes in discovery order as before, and the
\* files are then analysed in the order chosen.
ReadDirAnyOrder(c) ==
    /\ call[c].pc = "readdir"
    /\ LET cr == call[c]
           r == Drain(cr.files, Children(Head(cr.todo).path) \o Tail(cr.todo))
           ns == InitNodes(nodes, r.found, c)
       IN  IF Head(cr.todo).path \in unlistable
           THEN ListFailed(c)
           ELSE IF r.todo # << >>
                THEN Listed(c, Children(Head(cr.todo).path))
                ELSE /\ nodes' = ns
                     /\ \E order \in Orders(r.found) :
                           call' = [call EXCEPT ![c] =
                                       AfterFile([cr EXCEPT !.files = order,
                                                            !.todo = << >>,
                                                            !.fi = 0],
                                                 ns)]
    /\ UNCHANGED <<rootDir, disk, network, resolver, queries, journal>>

NextAnyOrder ==
    \/ \E r \in Roots : Build(1, r)
    \/ ReadDirAnyOrder(1)
    \/ ReadFile(1)
    \/ RecordEdgeStep(1)

\* One build whose files are analysed in an arbitrary order
SpecAnyOrder == Init /\ [][NextAnyOrder]_vars

\* ----------------------------------------------------------------- queries

\* A path as the string the code holds, token by token: each segment is
\* preceded by "/" (an absolute path) or separated from the one before by
\* "/" (a relative one).  '/app/src/lib.ts' is
\* <<"/", "app", "/", "src", "/", "lib", ".ts">>, 'lib.ts' is <<"lib", ".ts">>
\* and '' is << >>.
RECURSIVE PathString(_, _)
PathString(abs, segs) ==
    IF segs = << >> THEN << >>
    ELSE (IF abs THEN <<"/">> ELSE << >>) \o Head(segs) \o PathString(TRUE, Tail(segs))

\* key.endsWith(filePath), for strings that meet on a token boundary
EndsWith(str, tail) ==
    /\ Len(tail) <= Len(str)
    /\ SubSeq(str, Len(str) - Len(tail) + 1, Len(str)) = tail

\* The length of the longest common prefix of two paths
RECURSIVE CommonLen(_, _)
CommonLen(p, q) ==
    IF p = << >> \/ q = << >> \/ Head(p) # Head(q) THEN 0
    ELSE 1 + CommonLen(Tail(p), Tail(q))

\* A mapping that hands the stored path out as it is
RelativeKept(from, to) == to

\* path.relative(from, to) of two absolute paths: '..' for every segment of
\* from below the common prefix, then the rest of to
Relative(from, to) ==
    LET n == CommonLen(from, to)
    IN  [k \in 1..(Len(from) - n) |-> DotDot] \o SubSeq(to, n + 1, Len(to))

\* What getRelationships(filePath) returns on the graph ns with root root
Relationships(ns, root, filePath) ==
    LET absolutePath == PathResolve(root, filePath)
        i == IndexOf(ns, absolutePath)
        hits == {k \in 1..Len(ns) :
                    EndsWith(PathString(TRUE, ns[k].path),
                             PathString(filePath.abs, filePath.segs))}
        first == CHOOSE k \in hits : \A j \in hits : k <= j
        node == IF i # 0 THEN ns[i] ELSE ns[first]
    IN  IF i = 0 /\ hits = {} THEN NotFound
        ELSE [found |-> TRUE,
              path |-> node.path,
              imports |-> [k \in 1..Len(node.imports) |->
                              Relative(root, node.imports[k])],
              importedBy |-> [k \in 1..Len(node.importedBy) |->
                                 Relative(root, node.importedBy[k])],
              symbols |-> node.symbols]

\* The paths getRelationships is called with: 'index.ts', '/app/utils.ts',
\* 'lib.ts', 'missing.ts' and ''
Queries ==
    { Ref(FALSE, << <<"index", ".ts">> >>),
      Ref(TRUE, AppUtils),
      Ref(FALSE, << <<"lib", ".ts">> >>),
      Ref(FALSE, << <<"missing", ".ts">> >>),
      Ref(FALSE, << >>) }

\* getRelationships(filePath) is called and returns
GetRelationships(filePath) ==
    /\ asked' = filePath
    /\ reply' = Relationships(nodes, rootDir, filePath)
    /\ UNCHANGED <<graph, disk, network, resolver, summary, journal>>

NextQuery ==
    \/ \E c \in 1..MaxQueriedCalls :
          \/ \E r \in Roots : Build(c, r)
          \/ ReadDir(c)
          \/ ReadFile(c)
          \/ RecordEdgeStep(c)
    \/ \E filePath \in Queries : GetRelationships(filePath)

\* Builds run one after the other and the graph is queried at any moment
SpecQuery == Init /\ [][NextQuery]_vars

\* ----------------------------------------------------------------- summary

\* .slice(0, 5)
TopN == 5

\* A sort that leaves the nodes in insertion order
SortByInboundKept(ns) == ns

\* One step of the sort: n goes behind every node that has at least as many
\* importedBy entries
InsertByInbound(sorted, n) ==
    LET ahead == {k \in 1..Len(sorted) :
                    Len(sorted[k].importedBy) >= Len(n.importedBy)}
        at == IF ahead = {} THEN 0 ELSE CHOOSE k \in ahead : \A j \in ahead : j <= k
    IN  SubSeq(sorted, 1, at) \o <<n>> \o SubSeq(sorted, at + 1, Len(sorted))

\* [...this.nodes.values()].sort((a, b) => b.importedBy.length -
\* a.importedBy.length): a stable sort, nodes with equal counts keep their
\* insertion order
RECURSIVE SortByInbound(_)
SortByInbound(ns) ==
    IF ns = << >> THEN << >>
    ELSE InsertByInbound(SortByInbound(Front(ns)), Last(ns))

\* What getSummary() returns on the graph ns with root root
Summary(ns, root) ==
    LET sorted == SortByInbound(ns)
        top == SubSeq(sorted, 1, IF Len(sorted) < TopN THEN Len(sorted) ELSE TopN)
    IN  [root |-> root,
         fileCount |-> Len(ns),
         mostReferencedFiles |->
             [k \in 1..Len(top) |->
                 [file |-> Relative(root, top[k].path),
                  referencedBy |-> Len(top[k].importedBy)]]]

\* The files of the graphs getSummary is tried on: /app/a.ts, /app/b.ts, ...
SummaryFiles ==
    LET stems == <<"a", "b", "c", "d", "e", "f", "g", "h">>
    IN  [k \in 1..MaxNodes |-> Append(App, <<stems[k], ".ts">>)]

\* The graph as step 1 of a build of /app leaves it, for the first n files
InitSummary ==
    /\ \E n \in 0..MaxNodes : nodes = InitNodes(<< >>, SubSeq(SummaryFiles, 1, n), 1)
    /\ rootDir = App
    /\ call = [c \in Calls |-> IdleCall]
    /\ content = [f \in DiskFiles |-> << >>]
    /\ unreadable = {}
    /\ unlistable = {}
    /\ NothingAsked
    /\ InitJournal

\* The second phase of that build records one edge: a reference of the i-th
\* file has resolved to the j-th.  The graphs are made before getSummary is
\* applied to them.
AddEdge(i, j) ==
    /\ summary = NoSummary
    /\ Cardinality(ImportPairs(nodes)) < MaxEdges
    /\ nodes' = RecordEdge(nodes, TRUE, nodes[i].path, nodes[j].path)
    /\ UNCHANGED <<rootDir, call, disk, network, resolver, queries, journal>>

\* getSummary() is called and returns
GetSummary ==
    /\ summary' = Summary(nodes, rootDir)
    /\ UNCHANGED <<graph, disk, network, resolver, asked, reply, journal>>

NextSummary ==
    \/ \E i, j \in 1..Len(nodes) : AddEdge(i, j)
    \/ GetSummary

\* getSummary applied to graphs of bounded size
SpecSummary == InitSummary /\ [][NextSummary]_vars

\* ----------------------------------------------------- the thought journal

\* A journal that keeps totalThoughts as it was given
AdjustedNever(input) == input

\* if (input.thoughtNumber > input.totalThoughts) input.totalThoughts =
\* input.thoughtNumber
Adjusted(input) ==
    IF input.thoughtNumber > input.totalThoughts
    THEN [input EXCEPT !.totalThoughts = input.thoughtNumber]
    ELSE input

\* A journal that puts the new thought in front
AddToMemoryInFront(history, input) == <<Adjusted(input)>> \o history

\* addToMemory, the history: this.thoughtHistory.push(input)
AddToMemory(history, input) == Append(history, Adjusted(input))

DigitChars == <<"0", "1", "2", "3", "4", "5", "6", "7", "8", "9">>

\* `${n}` for a natural number n: its decimal digits
RECURSIVE Digits(_)
Digits(n) ==
    IF n < 10 THEN <<DigitChars[n + 1]>>
    ELSE Digits(n \div 10) \o <<DigitChars[(n % 10) + 1]>>

\* A key that is the branch id alone
BranchKeyIdOnly(from, id) == id

\* `${branchFromThought}-${branchId}`, as its characters
BranchKey(from, id) == Digits(from) \o <<"-">> \o id

\* t.branchFromThought && t.branchId: neither is absent, and the number is
\* not 0 and the string is not empty
HasBranch(t) ==
    /\ t.branchFromThought # 0
    /\ t.branchId # Absent
    /\ t.branchId[1] # << >>

\* The place of a key among the keys of this.branches, 0 when it is none
BranchIndex(br, key) ==
    LET S == {i \in 1..Len(br) : br[i].key = key}
    IN  IF S = {} THEN 0 ELSE CHOOSE i \in S : TRUE

\* if (!this.branches[branchKey]) this.branches[branchKey] = [];
\* this.branches[branchKey].push(t), for a thought that has a branch
Indexed(br, t) ==
    LET key == BranchKey(t.branchFromThought, t.branchId[1])
        i == BranchIndex(br, key)
    IN  IF HasBranch(t)
        THEN IF i = 0
             THEN Append(br, [key |-> key, thoughts |-> <<t>>])
             ELSE [br EXCEPT ![i].thoughts = Append(@, t)]
        ELSE br

\* addToMemory, the branch index
AddToBranches(br, input) == Indexed(br, Adjusted(input))

\* JSON.stringify(this.thoughtHistory) and JSON.parse of it: the same
\* fields in new objects
Serialized(history) == [i \in 1..Len(history) |-> [history[i] EXCEPT !.obj = 0]]

\* loadHistory: every thought of the file goes through addToMemory
RECURSIVE LoadHistory(_, _)
LoadHistory(history, file) ==
    IF file = << >> THEN history
    ELSE LoadHistory(AddToMemory(history, Head(file)), Tail(file))

RECURSIVE LoadBranches(_, _)
LoadBranches(br, file) ==
    IF file = << >> THEN br
    ELSE LoadBranches(AddToBranches(br, Head(file)), Tail(file))

\* An archive that empties the index and does not fill it again
RebuiltEmpty(br, history) == br

\* archiveHistory, the rebuilt index: this.branches = {} and the forEach
RECURSIVE Rebuilt(_, _)
Rebuilt(br, history) ==
    IF history = << >> THEN br
    ELSE Rebuilt(Indexed(br, Head(history)), Tail(history))

\* A range test that lets an end before the start through
ValidRangeUnordered(startIndex, endIndex, length) ==
    ~(startIndex < 1 \/ endIndex > length)

\* archiveHistory, its test: the negation of the condition of the throw
ValidRange(startIndex, endIndex, length) ==
    ~(startIndex < 1 \/ endIndex > length \/ startIndex > endIndex)

\* The text given as the summary
SummaryGiven == <<"done so far">>

\* archiveHistory, the summary thought
SummaryThought(history, startIndex, endIndex) ==
    [thought |-> <<"SUMMARY [">> \o Digits(startIndex) \o <<"-">>
                 \o Digits(endIndex) \o <<"]: ">> \o SummaryGiven,
     thoughtNumber |-> startIndex,
     totalThoughts |-> history[Len(history)].totalThoughts - (endIndex - startIndex),
     nextThoughtNeeded |-> TRUE, branchFromThought |-> 0, branchId |-> Absent,
     obj |-> 0]

\* An archive that takes one thought less out of the history
ArchivedShort(history, startIndex, endIndex) ==
    SubSeq(history, 1, startIndex - 1)
    \o <<SummaryThought(history, startIndex, endIndex)>>
    \o SubSeq(history, endIndex, Len(history))

\* archiveHistory, the history: the splice, and the thoughts after the
\* summary numbered down by removedCount - 1
Archived(history, startIndex, endIndex) ==
    LET removedCount == endIndex - startIndex + 1
        spliced == SubSeq(history, 1, startIndex - 1)
                   \o <<SummaryThought(history, startIndex, endIndex)>>
                   \o SubSeq(history, startIndex + removedCount, Len(history))
    IN  [i \in 1..Len(spliced) |->
            IF i > startIndex
            THEN [spliced[i] EXCEPT !.thoughtNumber = @ - (removedCount - 1)]
            ELSE spliced[i]]

\* The payload processThought returns
Report(input, history, br) ==
    [NoReport EXCEPT
        !.thoughtNumber = input.thoughtNumber,
        !.totalThoughts = input.totalThoughts,
        !.nextThoughtNeeded = input.nextThoughtNeeded,
        !.branches = [i \in 1..Len(br) |-> br[i].key],
        !.thoughtHistoryLength = Len(history)]

\* What archiveHistory returns
ArchiveReport(startIndex, history) ==
    [NoReport EXCEPT !.newHistoryLength = Len(history),
                     !.summaryInsertedAt = startIndex]

\* The thoughts processThought is called with: one whose number exceeds its
\* total, one on a branch, and one whose branch id is the empty string
Inputs ==
    { Thought(<<"beyond">>, 4, 3, 0, Absent),
      Thought(<<"alternative">>, 2, 3, 1, Given(<<"b">>)),
      Thought(<<"unnamed">>, 1, 3, 1, Given(<< >>)) }

\* The ranges archiveHistory is called with
Ranges == { <<1, 2>>, <<2, 2>>, <<0, 1>>, <<2, 1>>, <<1, 4>> }

\* The history files a server may find when it is constructed
HistoryFiles ==
    { << >>,
      << Thought(<<"kept">>, 1, 1, 0, Absent),
         Thought(<<"other">>, 2, 2, 1, Given(<<"a">>)) >> }

\* new SequentialThinkingServer(storagePath, delayMs)
InitThinking ==
    /\ InitGraph
    /\ content = [f \in DiskFiles |-> << >>]
    /\ unreadable = {}
    /\ unlistable = {}
    /\ NothingAsked
    /\ \E file \in HistoryFiles :
          /\ storage \in {[file |-> file, tmp |-> << >>, ok |-> b] : b \in BOOLEAN}
          /\ thoughtHistory = LoadHistory(<< >>, file)
          /\ branches = LoadBranches(<< >>, file)
    /\ isSaving = FALSE
    /\ delayMs \in {0, 100}
    /\ save = NoSave
    /\ jcall = [j \in JCalls |-> IdleJCall]

InFlight(j) == jcall[j].pc \in {"delay", "saving"}

\* The record of a call whose awaited saveHistory has returned
Completed(jr, history, br) ==
    [jr EXCEPT !.pc = "done",
               !.result = CASE jr.op = "thought" -> Report(jr.input, history, br)
                            [] jr.op = "archive" -> ArchiveReport(jr.range[1], history)
                            [] OTHER -> NoReport]

\* A saveHistory that never finds a save running
SaveBusyNever(flag) == FALSE

\* saveHistory, its test: if (this.isSaving)
SaveBusy(flag) == flag

\* A saveHistory that gives up when a save is running
ScheduledDropped(timers) == timers

\* setTimeout(() => this.saveHistory(), 100): one more retry is pending
Scheduled(timers) == timers + 1

\* A call j, whose record is jr, has changed the history to history and
\* the branch index to br, and calls saveHistory; calls holds the records
\* of the calls as the change left them.  When a save is running, a retry
\* is scheduled and saveHistory returns at once; otherwise the flag is
\* set, the history is serialised and the write of the .tmp file is asked.
\* Every other call in flight has seen the journal change under it.
ChangeAndSave(j, jr, calls, history, br) ==
    /\ thoughtHistory' = history
    /\ branches' = br
    /\ IF SaveBusy(isSaving)
       THEN /\ isSaving' = isSaving
            /\ save' = [save EXCEPT !.timers = Scheduled(@)]
            /\ jcall' = [k \in JCalls |->
                            IF k = j THEN Completed(jr, history, br)
                            ELSE IF InFlight(k) THEN [calls[k] EXCEPT !.alone = FALSE]
                            ELSE calls[k]]
       ELSE /\ isSaving' = TRUE
            /\ save' = [save EXCEPT !.run[j] = [phase |-> "write",
                                                data |-> Serialized(history)]]
            /\ jcall' = [k \in JCalls |->
                            IF k = j THEN [jr EXCEPT !.pc = "saving"]
                            ELSE IF InFlight(k) THEN [calls[k] EXCEPT !.alone = FALSE]
                            ELSE calls[k]]

\* addToMemory(input) and the call of saveHistory, by the call j whose
\* record is jr
Remember(j, jr) ==
    LET input == Adjusted([jr.given EXCEPT !.obj = j])
    IN  ChangeAndSave(j, [jr EXCEPT !.input = input], jcall,
                      AddToMemory(thoughtHistory, input),
                      AddToBranches(branches, input))

\* processThought(input) up to its first suspension: the delay when delayMs
\* is positive, else addToMemory and the call of saveHistory
ProcessThought(j, input) ==
    /\ jcall[j].pc = "idle"
    /\ \A k \in JCalls : k < j => jcall[k].pc # "idle"
    /\ LET jr == [jcall[j] EXCEPT !.op = "thought", !.given = input,
                                  !.input = [input EXCEPT !.obj = j],
                                  !.before = thoughtHistory, !.alone = TRUE]
       IN  IF delayMs > 0
           THEN /\ jcall' = [jcall EXCEPT ![j] = [jr EXCEPT !.pc = "delay"]]
                /\ UNCHANGED <<thoughtHistory, branches, isSaving, save>>
           ELSE Remember(j, jr)
    /\ UNCHANGED <<graph, disk, network, resolver, queries, delayMs, storage>>

\* The delay of processThought is over: addToMemory and saveHistory
Delayed(j) ==
    /\ jcall[j].pc = "delay"
    /\ Remember(j, jcall[j])
    /\ UNCHANGED <<graph, disk, network, resolver, queries, delayMs, storage>>

\* clearHistory(): both fields are emptied and saveHistory is called
ClearHistory(j) ==
    /\ jcall[j].pc = "idle"
    /\ \A k \in JCalls : k < j => jcall[k].pc # "idle"
    /\ ChangeAndSave(j, [jcall[j] EXCEPT !.op = "clear", !.before = thoughtHistory,
                                         !.alone = TRUE],
                     jcall, << >>, << >>)
    /\ UNCHANGED <<graph, disk, network, resolver, queries, delayMs, storage>>

\* The calls as archiveHistory leaves them: the argument of a processThought
\* call in flight is the object the history holds, so it is numbered down
\* with it
Renumbered(history, startIndex, endIndex) ==
    [k \in JCalls |->
        IF /\ InFlight(k)
           /\ \E i \in (startIndex + 1)..Len(history) : history[i].obj = k
        THEN [jcall[k] EXCEPT !.input.thoughtNumber = @ - (endIndex - startIndex)]
        ELSE jcall[k]]

\* archiveHistory(startIndex, endIndex, summary): the throw for a range
\* that is not valid, else the summary put in the place of the range, the
\* index rebuilt and saveHistory called
ArchiveHistory(j, startIndex, endIndex) ==
    /\ jcall[j].pc = "idle"
    /\ \A k \in JCalls : k < j => jcall[k].pc # "idle"
    /\ LET jr == [jcall[j] EXCEPT !.op = "archive", !.range = <<startIndex, endIndex>>,
                                  !.before = thoughtHistory, !.alone = TRUE]
           history == Archived(thoughtHistory, startIndex, endIndex)
       IN  IF ValidRange(startIndex, endIndex, Len(thoughtHistory))
           THEN ChangeAndSave(j, jr, Renumbered(history, startIndex, endIndex),
                              history, Rebuilt(<< >>, history))
           ELSE /\ jcall' = [jcall EXCEPT ![j] = [jr EXCEPT !.pc = "done",
                                                            !.result.isError = TRUE]]
                /\ UNCHANGED <<thoughtHistory, branches, isSaving, save>>
    /\ UNCHANGED <<graph, disk, network, resolver, queries, delayMs, storage>>

\* The saveHistory call w is over (finally): the flag is lowered and the
\* call that awaited it, if any, goes on to its return
SaveOver(w) ==
    /\ isSaving' = FALSE
    /\ save' = [save EXCEPT !.run[w] = NoRun]
    /\ jcall' = [k \in JCalls |->
                    IF k = w
                    THEN Completed(jcall[k], thoughtHistory, branches)
                    ELSE jcall[k]]

\* fs.writeFile(tmpPath, ...) answers the save w: on success the rename is
\* asked, on failure the error is logged and the save is over
WriteFile(w) ==
    /\ save.run[w].phase = "write"
    /\ IF storage.ok
       THEN /\ storage' = [storage EXCEPT !.tmp = <<save.run[w].data>>]
            /\ save' = [save EXCEPT !.run[w].phase = "rename"]
            /\ UNCHANGED <<isSaving, jcall>>
       ELSE /\ SaveOver(w)
            /\ UNCHANGED storage
    /\ UNCHANGED <<graph, disk, network, resolver, queries, thoughtHistory, branches,
                   delayMs>>

\* fs.rename(tmpPath, this.storagePath) answers the save w, with an error
\* when there is no .tmp file, and the save is over
Rename(w) ==
    /\ save.run[w].phase = "rename"
    /\ IF storage.tmp # << >>
       THEN storage' = [storage EXCEPT !.file = storage.tmp[1], !.tmp = << >>]
       ELSE UNCHANGED storage
    /\ SaveOver(w)
    /\ UNCHANGED <<graph, disk, network, resolver, queries, thoughtHistory, branches,
                   delayMs>>

\* A retry timer fires and calls saveHistory: when a save is running the
\* retry is scheduled again, otherwise a save that no call awaits begins
Retry ==
    /\ save.timers > 0
    /\ IF SaveBusy(isSaving)
       THEN /\ save' = [save EXCEPT !.timers = Scheduled(@ - 1)]
            /\ UNCHANGED isSaving
       ELSE /\ isSaving' = TRUE
            /\ save' = [save EXCEPT !.timers = @ - 1,
                                    !.run[0] = [phase |-> "write",
                                                data |-> Serialized(thoughtHistory)]]
    /\ UNCHANGED <<graph, disk, network, resolver, queries, thoughtHistory, branches,
                   delayMs, storage, jcall>>

NextJournal ==
    \/ \E j \in JCalls :
          \/ \E input \in Inputs : ProcessThought(j, input)
          \/ Delayed(j)
          \/ ClearHistory(j)
          \/ \E r \in Ranges : ArchiveHistory(j, r[1], r[2])
    \/ \E w \in Savers :
          \/ WriteFile(w)
          \/ Rename(w)
    \/ Retry

\* The calls made on one SequentialThinkingServer
SpecJournal == InitThinking /\ [][NextJournal]_vars

\* The same calls, where every file operation answers and every timer
\* fires
SpecJournalFair ==
    /\ SpecJournal
    /\ \A j \in JCalls : WF_vars(Delayed(j))
    /\ \A w \in Savers : WF_vars(WriteFile(w)) /\ WF_vars(Rename(w))
    /\ WF_vars(Retry)

\* ------------------------------------------------- resolvePath on its own

\* The files the resolver is tried on: for '/app/lib', '/app/lib.js' and
\* '/app/utils', every path the resolver may probe, in one fixed order.
ProbeBases ==
    << Append(App, <<"lib">>), Append(App, <<"lib", ".js">>),
       Append(App, <<"utils">>) >>

RECURSIVE Flatten(_)
Flatten(seqs) == IF seqs = << >> THEN << >> ELSE Head(seqs) \o Flatten(Tail(seqs))

\* The file names a base may be completed to
Completions(base) ==
    << AppendExt(base, ".ts"), AppendExt(base, ".js"), AppendExt(base, ".tsx"),
       AppendExt(base, ".jsx"), AppendExt(base, ".json"),
       AppendIndex(base, ".ts"), AppendIndex(base, ".js") >>

ProbeFiles == Flatten([b \in 1..Len(ProbeBases) |-> Completions(ProbeBases[b])])

\* A proper prefix: p names a directory on the way to q
IsAncestor(p, q) == Len(p) < Len(q) /\ SubSeq(q, 1, Len(p)) = p

\* Sets of files one directory tree can hold: no file is also a directory
FileSets ==
    {F \in SUBSET Range(ProbeFiles) :
        /\ Cardinality(F) <= MaxFiles
        /\ \A p, q \in F : ~IsAncestor(p, q)}

\* The specifiers and directories resolvePath is called with
ProbeQueries ==
    { [dir |-> App, ref |-> Ref(FALSE, <<Dot, <<"lib">>>>)],
      [dir |-> App, ref |-> Ref(FALSE, <<Dot, <<"lib", ".js">>>>)],
      [dir |-> App, ref |-> Ref(FALSE, <<Dot, <<"utils">>>>)],
      [dir |-> Src, ref |-> Ref(FALSE, <<DotDot, <<"lib", ".js">>>>)],
      [dir |-> App, ref |-> Ref(FALSE, <<<<"utils">>>>)] }

\* The graph as step 1 of a build of /app leaves it, for one set of files
InitResolve ==
    /\ \E F \in FileSets :
          nodes = InitNodes(<< >>, SelectSeq(ProbeFiles, LAMBDA p : p \in F), 1)
    /\ rootDir = App
    /\ call = [c \in Calls |-> IdleCall]
    /\ content = [f \in DiskFiles |-> << >>]
    /\ unreadable = {}
    /\ unlistable = {}
    /\ NothingAsked
    /\ InitJournal

\* resolvePath(dir, relativePath) is called and answers
ResolveCall(q) ==
    /\ query' = q
    /\ answer' = ResolvePath(nodes, q.dir, q.ref)
    /\ UNCHANGED <<graph, disk, network, asked, reply, summary, journal>>

NextResolve == \E q \in ProbeQueries : ResolveCall(q)

\* The resolver applied to graphs of bounded sets of files
SpecResolve == InitResolve /\ [][NextResolve]_vars

\* ------------------------------------------------------- reading the graph

KeysOf(ns) == {ns[i].path : i \in 1..Len(ns)}

\* The pairs <<importer, imported>> of the imports lists
ImportEdges(ns) ==
    {<<ns[i].path, p>> : <<i, p>> \in
        UNION {{<<i, q>> : q \in Range(ns[i].imports)} : i \in 1..Len(ns)}}

\* The pairs <<importer, imported>> of the importedBy lists
ImportedByEdges(ns) ==
    {<<p, ns[i].path>> : <<i, p>> \in
        UNION {{<<i, q>> : q \in Range(ns[i].importedBy)} : i \in 1..Len(ns)}}

Symmetric(ns) ==
    \A i, j \in 1..Len(ns) :
        Includes(ns[i].imports, ns[j].path) <=> Includes(ns[j].importedBy, ns[i].path)

NoDuplicates(seq) ==
    \A i, j \in 1..Len(seq) : i # j => seq[i] # seq[j]

\* The node of a path that is a key
NodeOf(ns, p) == ns[CHOOSE i \in 1..Len(ns) : ns[i].path = p]

Returned(c) == call[c].pc = "done"

InPhaseTwo(c) == call[c].pc \in {"read", "edge"}

\* ------------------------------------------------------------ fetchWithRetry

\* retries = 3, the default
DefaultRetries == 3

\* backoff = 1000, the default, in milliseconds
DefaultBackoff == 1000

\* What one fetch may give: a network error, a page, a missing page, a
\* rate limit without and with a Retry-After of 2 seconds, a server error
Outcomes ==
    { Thrown, Response(200, 0), Response(404, 0), Response(429, 0),
      Response(429, 2), Response(503, 0) }

\* response.ok
Ok(status) == status >= 200 /\ status <= 299

\* A policy that tries again after every response that is not ok
ShouldRetryNotOk(outcome, retries) ==
    IF outcome.thrown THEN retries > 0
    ELSE ~Ok(outcome.status) /\ retries > 0

\* The three tests that lead to another attempt: the 429 test, the test
\* of the server errors, and the test of the catch block
ShouldRetry(outcome, retries) ==
    IF outcome.thrown THEN retries > 0
    ELSE \/ outcome.status = 429 /\ retries > 0
         \/ ~Ok(outcome.status) /\ retries > 0 /\ outcome.status >= 500

\* The time waited before the next attempt: Retry-After seconds after a 429
\* that has the header, else the backoff
WaitTime(outcome, backoff) ==
    IF ~outcome.thrown /\ outcome.status = 429 /\ outcome.retryAfter # 0
    THEN outcome.retryAfter * 1000
    ELSE backoff

\* fetchWithRetry(url, options) is called and asks its first fetch
FetchWithRetry ==
    /\ fetch.pc = "idle"
    /\ fetch' = [fetch EXCEPT !.pc = "fetching", !.retries = DefaultRetries,
                              !.backoff = DefaultBackoff]
    /\ UNCHANGED <<graph, disk, resolver, queries, journal>>

\* The fetch answers with outcome: another attempt is prepared and its
\* wait begins, or the response is returned, or the error is thrown
FetchAnswers(outcome) ==
    /\ fetch.pc = "fetching"
    /\ IF ShouldRetry(outcome, fetch.retries)
       THEN fetch' = [fetch EXCEPT !.pc = "waiting",
                                   !.attempts = Append(@, outcome),
                                   !.waits = Append(@, WaitTime(outcome, fetch.backoff))]
       ELSE fetch' = [fetch EXCEPT !.pc = IF outcome.thrown THEN "thrown" ELSE "returned",
                                   !.attempts = Append(@, outcome),
                                   !.result = outcome]
    /\ UNCHANGED <<graph, disk, resolver, queries, journal>>

\* The wait is over: fetchWithRetry(url, options, retries - 1, backoff * 2)
WaitOver ==
    /\ fetch.pc = "waiting"
    /\ fetch' = [fetch EXCEPT !.pc = "fetching", !.retries = @ - 1, !.backoff = @ * 2]
    /\ UNCHANGED <<graph, disk, resolver, queries, journal>>

NextFetch ==
    \/ FetchWithRetry
    \/ \E outcome \in Outcomes : FetchAnswers(outcome)
    \/ WaitOver

\* The server before any request
InitFetch ==
    /\ InitGraph
    /\ content = [f \in DiskFiles |-> << >>]
    /\ unreadable = {}
    /\ unlistable = {}
    /\ NothingAsked
    /\ InitJournal

\* One fetchWithRetry call, where every fetch answers and every timer fires
SpecFetch == InitFetch /\ [][NextFetch]_vars /\ WF_vars(NextFetch)

\* ------------------------------------------------------------------- claims

\* C1. Symmetry: in every state of a run of builds, so after every build
\* and after every single recording of an edge, B.path is in A.imports
\* exactly when A.path is in B.importedBy, for all nodes A and B.
C1_Symmetry == Symmetric(nodes)

\* C1 witness: a build is between two recordings of its second phase and
\* the graph already holds an edge.
C1_Witness ==
    \E c \in Calls :
        /\ call[c].pc = "edge"
        /\ call[c].ri >= 2
        /\ ImportEdges(nodes) # {}

\* C2. No duplicate edges: no imports list and no importedBy list ever
\* holds the same path twice.
C2_NoDuplicateEdges ==
    \A i \in 1..Len(nodes) :
        NoDuplicates(nodes[i].imports) /\ NoDuplicates(nodes[i].importedBy)

\* C2 witness: /app/index.ts was analysed with './utils' and './utils.js',
\* two specifiers of /app/utils.ts, and the build has returned.
C2_Witness ==
    \E c \in Calls :
        /\ Returned(c)
        /\ call[c].arg = App
        /\ AppIndex \notin unreadable
        /\ Len(ExtractImports(content[AppIndex])) = 2
        /\ AppIndex \in KeysOf(nodes)
        /\ NodeOf(nodes, AppIndex).imports = <<AppUtils>>
        /\ NodeOf(nodes, AppUtils).importedBy = <<AppIndex>>

\* C3. The keys of the graph are the files the build discovered: all through
\* the second phase of a build, and in the graph the build returns with,
\* the keys are exactly the files of that build's discovery, each once.
C3_NodesAreDiscoveredFiles ==
    \A c \in Calls :
        /\ InPhaseTwo(c) =>
              KeysOf(nodes) = Range(call[c].files) /\ Len(nodes) = Len(call[c].files)
        /\ Returned(c) =>
              /\ KeysOf(call[c].snap) = Range(call[c].files)
              /\ Len(call[c].snap) = Len(call[c].files)
              /\ call[c].result.nodeCount = call[c].result.totalFiles

\* C3 witness: a build of /app/src has returned after a build of /app, and
\* it analysed a reference ('../index') that resolves to no node of it.
C3_Witness ==
    \E c \in Calls :
        /\ c > 1
        /\ Returned(c)
        /\ call[c].arg = Src
        /\ call[c - 1].arg = App
        /\ SrcLib \notin unreadable
        /\ Head(ExtractImports(content[SrcLib])) = Ref(FALSE, <<DotDot, <<"index">>>>)
        /\ AppIndex \in KeysOf(call[c - 1].snap)

\* C4. Both endpoints of every edge are nodes: every path in an imports or
\* importedBy list is a key of the graph, in every state of a build.
C4_EndpointsAreNodes ==
    \A i \in 1..Len(nodes) :
        Range(nodes[i].imports) \cup Range(nodes[i].importedBy) \subseteq KeysOf(nodes)

\* C4 witness: a build of /app is recording edges, the graph holds one,
\* and the reference in hand ('dep') did not resolve.
C4_Witness ==
    \E c \in Calls :
        /\ call[c].pc = "edge"
        /\ call[c].arg = App
        /\ call[c].resolved = NoPath
        /\ ImportEdges(nodes) # {}

\* C5. Overlapping builds need no lock: once every build that was called
\* has returned, the graph is the graph of one of them: its root is that
\* build's root, its keys are that build's discovered files, both endpoints
\* of its edges are nodes and its edges are symmetric.
C5_OverlapIsSerial ==
    (/\ \E c \in Calls : Returned(c)
     /\ \A c \in Calls : call[c].pc \in {"idle", "done"})
    => \E c \in Calls :
          /\ Returned(c)
          /\ rootDir = call[c].arg
          /\ KeysOf(nodes) = Range(call[c].files)
          /\ ImportEdges(nodes) = ImportedByEdges(nodes)
          /\ ImportEdges(nodes) = ImportEdges(call[c].snap)

\* C6. Determinism: any two builds of the same root that have returned,
\* whatever was built in between, left the same nodes with the same symbols
\* and the same edges.
C6_Determinism ==
    \A c, d \in Calls :
        (Returned(c) /\ Returned(d) /\ call[c].arg = call[d].arg) =>
            /\ KeysOf(call[c].snap) = KeysOf(call[d].snap)
            /\ ImportEdges(call[c].snap) = ImportEdges(call[d].snap)
            /\ ImportedByEdges(call[c].snap) = ImportedByEdges(call[d].snap)
            /\ call[c].result = call[d].result

\* C6 witness: two successive builds of /app have returned, with edges.
C6_Witness ==
    \E c \in Calls :
        /\ c > 1
        /\ Returned(c) /\ Returned(c - 1)
        /\ call[c].arg = App /\ call[c - 1].arg = App
        /\ ImportEdges(call[c].snap) # {}

\* The order of candidates the resolver is specified to try for a base path
CandidateOrder(base) ==
    << base >> \o Completions(base)
    \o (IF EndsWithJs(base)
        THEN << ReplaceJs(base, ".ts"), ReplaceJs(base, ".tsx"), ReplaceJs(base, ".jsx") >>
        ELSE << >>)

\* The first path of a sequence that is in a set, or NoPath
FirstDiscovered(cands, keys) ==
    LET S == {i \in 1..Len(cands) : cands[i] \in keys}
    IN  IF S = {} THEN NoPath ELSE cands[CHOOSE i \in S : \A j \in S : i <= j]

Asked == query # NoQuery

QueryBase == PathResolve(query.dir, query.ref)

\* C7. Resolver precedence: resolvePath returns the first discovered file of
\* the fixed sequence base, base+.ts, +.js, +.tsx, +.jsx, +.json,
\* +/index.ts, +/index.js and, for a base ending in .js, its .ts, .tsx and
\* .jsx siblings; it returns null when none of them is discovered.
C7_ResolverPrecedence ==
    Asked => answer = FirstDiscovered(CandidateOrder(QueryBase), KeysOf(nodes))

\* C7 witness: './lib.js' was asked where both a suffixed file (lib.js.json)
\* and a sibling (lib.ts) are discovered, and the suffixed file was returned.
C7_Witness ==
    /\ Asked
    /\ query.ref = Ref(FALSE, <<Dot, <<"lib", ".js">>>>)
    /\ Append(App, <<"lib", ".ts">>) \in KeysOf(nodes)
    /\ answer = Append(App, <<"lib", ".js", ".json">>)

\* The base path with one of the known source extensions appended
Elided(base) == {AppendExt(base, e) : e \in {".ts", ".js", ".tsx", ".jsx", ".json"}}

\* C8. Extension elision: when the base path of a reference is not itself a
\* discovered file and the base plus a source extension is, the reference
\* resolves to such a file ('./utils' to /app/utils.<ext>).
C8_ExtensionElision ==
    (/\ Asked
     /\ QueryBase \notin KeysOf(nodes)
     /\ Elided(QueryBase) \cap KeysOf(nodes) # {})
    => answer \in Elided(QueryBase) \cap KeysOf(nodes)

\* C8 witness: './utils' was asked from /app where utils.jsx and
\* utils/index.ts are discovered, and utils.jsx was returned.
C8_Witness ==
    /\ Asked
    /\ query = [dir |-> App, ref |-> Ref(FALSE, <<Dot, <<"utils">>>>)]
    /\ Append(App, <<"utils">>) \notin KeysOf(nodes)
    /\ Append(Append(App, <<"utils">>), <<"index", ".ts">>) \in KeysOf(nodes)
    /\ answer = Append(App, <<"utils", ".jsx">>)

Siblings(base) == << ReplaceJs(base, ".ts"), ReplaceJs(base, ".tsx"), ReplaceJs(base, ".jsx") >>

\* The paths the suffix probing of a base tries
Probed(base) == Range(Completions(base))

\* C9 as stated. Sibling substitution: a reference whose base ends in .js
\* resolves to its first discovered sibling (.ts, else .tsx, else .jsx)
\* whenever the literal .js file is not discovered and a sibling is,
\* whatever other files were discovered.
C9_SiblingWheneverLiteralMissing ==
    (/\ Asked
     /\ EndsWithJs(QueryBase)
     /\ QueryBase \notin KeysOf(nodes)
     /\ Range(Siblings(QueryBase)) \cap KeysOf(nodes) # {})
    => answer = FirstDiscovered(Siblings(QueryBase), KeysOf(nodes))

\* C9 amended. Sibling substitution: a reference whose base ends in .js
\* resolves to its first discovered sibling (.ts, else .tsx, else .jsx)
\* whenever a sibling is discovered and neither the literal .js file nor any
\* path the suffix probing tries (lib.js.ts, ..., lib.js/index.js) is.
C9_SiblingSubstitution ==
    (/\ Asked
     /\ EndsWithJs(QueryBase)
     /\ QueryBase \notin KeysOf(nodes)
     /\ Probed(QueryBase) \cap KeysOf(nodes) = {}
     /\ Range(Siblings(QueryBase)) \cap KeysOf(nodes) # {})
    => answer = FirstDiscovered(Siblings(QueryBase), KeysOf(nodes))

\* C9 witness: './lib.js' was asked where lib.tsx and lib.jsx are discovered
\* and lib.js and lib.ts are not, and lib.tsx was returned.
C9_Witness ==
    /\ Asked
    /\ query.ref = Ref(FALSE, <<Dot, <<"lib", ".js">>>>)
    /\ Append(App, <<"lib", ".jsx">>) \in KeysOf(nodes)
    /\ Append(App, <<"lib", ".ts">>) \notin KeysOf(nodes)
    /\ answer = Append(App, <<"lib", ".tsx">>)

\* The base candidate of a reference: beside the referencing file when the
\* reference begins with '.', under the project root otherwise
BaseCandidate(root, f, r) ==
    PathResolve(IF StartsWithDot(r) THEN Dirname(f) ELSE root, r)

\* The edges a build of root over files must record: from every readable
\* file, for each of its references, to the file its base candidate names
ExpectedEdges(root, files) ==
    {e \in UNION {{<<f, FirstDiscovered(CandidateOrder(
                                BaseCandidate(root, f, ExtractImports(content[f])[k])),
                             files)>> :
                      k \in 1..Len(ExtractImports(content[f]))} :
                  f \in files \ unreadable} :
        e[2] # NoPath}

\* C10. Base candidate: the edges of a returned build are the edges from
\* each analysed file to the files named by its references, a reference
\* that begins with '.' being resolved beside the referencing file and every
\* other reference under the project root.
C10_BaseCandidate ==
    \A c \in Calls :
        Returned(c) =>
            /\ ImportEdges(call[c].snap) = ExpectedEdges(call[c].arg, Range(call[c].files))
            /\ ImportedByEdges(call[c].snap) = ExpectedEdges(call[c].arg, Range(call[c].files))

\* C10 witness: a build of /app has returned in which /app/src/lib.ts, a
\* file below the root, wrote 'src/utils' and has the edge to
\* /app/src/utils.ts, and wrote '../utils' and has the edge to /app/utils.ts.
C10_Witness ==
    \E c \in Calls :
        /\ Returned(c)
        /\ call[c].arg = App
        /\ SrcLib \notin unreadable
        /\ ExtractImports(content[SrcLib])[1] = Ref(FALSE, <<<<"src">>, <<"utils">>>>)
        /\ <<SrcLib, SrcUtils>> \in ImportEdges(call[c].snap)
        /\ <<SrcLib, AppUtils>> \in ImportEdges(call[c].snap)

\* C11. Unresolved is not an error: when resolvePath has answered null for
\* a reference, the step that handles the answer leaves every node as it
\* was, does not fail the build, and goes on to the next reference of the
\* file, or after the last one to the next file, or after the last file to
\* the return of build.
C11_UnresolvedIsSkipped ==
    [][\A c \in Calls :
          (call[c].pc = "edge" /\ call[c].resolved = NoPath /\ call'[c] # call[c])
          => /\ nodes' = nodes
             /\ IF call[c].ri < Len(call[c].refs)
                THEN /\ call'[c].pc = "edge"
                     /\ call'[c].fi = call[c].fi
                     /\ call'[c].ri = call[c].ri + 1
                ELSE IF call[c].fi < Len(call[c].files)
                     THEN call'[c].pc = "read" /\ call'[c].fi = call[c].fi + 1
                     ELSE call'[c].pc = "done"]_vars

\* C11 witness: /app/index.ts referred to 'src/utils', to 'dep', which no
\* discovered file answers, and to './src/lib'; the build has returned and
\* the node holds the edges of the first and of the third reference.
C11_Witness ==
    \E c \in Calls :
        /\ Returned(c)
        /\ call[c].arg = App
        /\ AppIndex \notin unreadable
        /\ content[AppIndex][2] = Require(<<<<"dep">>>>)
        /\ NodeOf(call[c].snap, AppIndex).imports = <<SrcUtils, SrcLib>>
        /\ NodeOf(call[c].snap, SrcLib).importedBy # << >>

\* The items of a text that are declarations or calls naming a module
Declared(text) ==
    SelectSeq(text, LAMBDA it : it.kind \in {"import", "export", "dynamic", "require"})

\* The file a specifier written in f names among the nodes ns, if any
Named(ns, root, f, ref) == ResolvePath(ns, ResolveFrom(root, f, ref), ref)

\* C12. Comment/string immunity: the references a build works through for a
\* file are exactly the specifiers of the file's import declarations,
\* re-export declarations, import('...') and require('...') calls, in text
\* order; and in the graph a build returns, a file has no edge to a
\* discovered file that only a comment or a string literal of its text
\* names.
C12_CommentStringImmunity ==
    \A c \in Calls :
        /\ call[c].pc = "edge" =>
              LET d == Declared(content[call[c].files[call[c].fi]])
              IN  call[c].refs = [k \in 1..Len(d) |-> d[k].ref]
        /\ Returned(c) =>
              \A f \in Range(call[c].files) \ unreadable :
                  \A k \in 1..Len(content[f]) :
                      LET it == content[f][k]
                          t == Named(call[c].snap, call[c].arg, f, it.ref)
                          d == Declared(content[f])
                      IN  ( /\ it.kind \in {"comment", "string"}
                            /\ t # NoPath
                            /\ \A j \in 1..Len(d) :
                                   Named(call[c].snap, call[c].arg, f, d[j].ref) # t )
                          => /\ <<f, t>> \notin ImportEdges(call[c].snap)
                             /\ <<f, t>> \notin ImportedByEdges(call[c].snap)

\* C12 witness: /app/index.ts holds a comment that reads like an import of
\* './src/lib', /app/src/lib.ts was discovered, and the build has returned
\* with the edge to /app/utils.ts as the only edge of /app/index.ts.
C12_Witness ==
    \E c \in Calls :
        /\ Returned(c)
        /\ call[c].arg = App
        /\ AppIndex \notin unreadable
        /\ content[AppIndex][2] = Comment(<<Dot, <<"src">>, <<"lib">>>>)
        /\ SrcLib \in KeysOf(call[c].snap)
        /\ NodeOf(call[c].snap, AppIndex).imports = <<AppUtils>>
        /\ AppIndex \notin Range(NodeOf(call[c].snap, SrcLib).importedBy)

\* The discovered files whose declarations or calls name F
Importers(ns, root, files, F) ==
    {g \in Range(files) \ unreadable :
        \E k \in 1..Len(Declared(content[g])) :
            Named(ns, root, g, Declared(content[g])[k].ref) = F}

\* The exported symbols of a text, in declaration order
Exported(text) ==
    LET d == SelectSeq(text, LAMBDA it : it.kind \in {"function", "class", "var"})
    IN  [k \in 1..Len(d) |-> <<d[k].kind, d[k].name>>]

\* C13 as it is stated.  Per-file failure is absorbed: in the graph a build
\* returns, a discovered file whose read failed has a node with empty
\* imports, empty importedBy and empty symbols.
C13_FailedFileIsEdgeFree ==
    \A c \in Calls :
        Returned(c) =>
            \A F \in Range(call[c].files) \cap unreadable :
                /\ F \in KeysOf(call[c].snap)
                /\ NodeOf(call[c].snap, F).imports = << >>
                /\ NodeOf(call[c].snap, F).importedBy = << >>
                /\ NodeOf(call[c].snap, F).symbols = << >>

\* C13, amended.  A build is never rejected once its discovery is over, so
\* a failed read does not stop it; in the graph it returns, a discovered
\* file F whose read failed has a node with empty imports and empty
\* symbols, whose importedBy holds exactly the analysed files that refer to
\* F; and every other discovered file has been analysed: its node holds its
\* exported symbols.
C13_FailureAbsorbed ==
    \A c \in Calls :
        /\ call[c].pc = "failed" => call[c].fi = 0
        /\ Returned(c) =>
              /\ \A F \in Range(call[c].files) \cap unreadable :
                    /\ F \in KeysOf(call[c].snap)
                    /\ NodeOf(call[c].snap, F).imports = << >>
                    /\ NodeOf(call[c].snap, F).symbols = << >>
                    /\ Range(NodeOf(call[c].snap, F).importedBy) =
                           Importers(call[c].snap, call[c].arg, call[c].files, F)
              /\ \A g \in Range(call[c].files) \ unreadable :
                    NodeOf(call[c].snap, g).symbols = Exported(content[g])

\* C13 witness: the read of /app/index.ts failed, /app/utils.ts imports
\* './index.ts', and the build of /app has returned: the node of
\* /app/index.ts has no imports and is imported by /app/utils.ts.
C13_Witness ==
    \E c \in Calls :
        /\ Returned(c)
        /\ call[c].arg = App
        /\ unreadable = {AppIndex}
        /\ NodeOf(call[c].snap, AppIndex).imports = << >>
        /\ AppUtils \in Range(NodeOf(call[c].snap, AppIndex).importedBy)
        /\ NodeOf(call[c].snap, SrcLib).symbols # << >>

\* The directories a walk from root lists: the root and the directories in
\* it that are not excluded (the tree has no directory further down)
Walked(root) ==
    {root} \cup {Append(root, Listing(root)[i].name) : i \in
                    {k \in 1..Len(Listing(root)) :
                        /\ Listing(root)[k].isDir
                        /\ ~IsExcludedDir(Listing(root)[k].name)}}

\* C14. Enumeration failure is fatal: a build whose walk met a directory it
\* could not list is rejected, so a build that analyses files or returns
\* has listed every directory of its walk; a rejected build returned no
\* result record, analysed no file and, until the next build is
\* called, leaves the graph without any node or edge.
C14_EnumerationFailureIsFatal ==
    \A c \in Calls :
        /\ (InPhaseTwo(c) \/ Returned(c)) => Walked(call[c].arg) \cap unlistable = {}
        /\ call[c].pc = "failed" =>
              /\ Walked(call[c].arg) \cap unlistable # {}
              /\ call[c].result = NoResult
              /\ call[c].snap = << >>
              /\ call[c].fi = 0
              /\ (\A d \in Calls : d > c => call[d].pc = "idle") => nodes = << >>

\* C14 witness: /app/src cannot be listed; a build of /app found
\* /app/index.ts, then failed at the listing of /app/src, and the graph is
\* empty.
C14_Witness ==
    \E c \in Calls :
        /\ call[c].pc = "failed"
        /\ call[c].arg = App
        /\ unlistable = {Src}
        /\ AppIndex \in Range(call[c].files)
        /\ nodes = << >>

\* Every file of the project tree
TreeFiles ==
    UNION {{Append(d, Listing(d)[i].name) : i \in
                {k \in 1..Len(Listing(d)) : ~Listing(d)[k].isDir}} :
           d \in {App, Src, Mods, Cov}}

\* The exclusion set as the claim lists it: version-control metadata, build
\* output, dependency cache, coverage output, tool cache
ExclusionSet ==
    {<<".git">>, <<"dist">>, <<"node_modules">>, <<"coverage">>, <<".gemini">>}

\* C15. Discovery filters: the files a returned build discovered are exactly
\* the files under its root whose extension is on the whitelist and none of
\* whose ancestor directories below the root is named in the exclusion set.
C15_DiscoveryFilters ==
    \A c \in Calls :
        Returned(c) =>
            Range(call[c].files) =
                {p \in TreeFiles :
                    /\ IsAncestor(call[c].arg, p)
                    /\ Last(Last(p)) \in {".ts", ".js", ".tsx", ".jsx", ".json"}
                    /\ \A k \in (Len(call[c].arg) + 1)..(Len(p) - 1) :
                           p[k] \notin ExclusionSet}

\* A query names a file when, resolved against the root, it is the file's
\* path, or when it is made of the last whole segments of that path
NamesFile(root, filePath, p) ==
    \/ PathResolve(root, filePath) = p
    \/ /\ ~filePath.abs
       /\ filePath.segs # << >>
       /\ Len(filePath.segs) <= Len(p)
       /\ SubSeq(p, Len(p) - Len(filePath.segs) + 1, Len(p)) = filePath.segs

\* A step that is a getRelationships call with a new argument or answer
Answered == asked' # asked \/ reply' # reply

\* C16. Unknown-file query: a getRelationships call whose argument names no
\* discovered file returns the not-found result.
C16_UnknownFileNotFound ==
    [][(Answered /\ \A p \in KeysOf(nodes) : ~NamesFile(rootDir, asked', p))
          => reply' = NotFound]_vars

\* C17. Relationship query result: a getRelationships call whose argument,
\* resolved against the root, is the path of a node returns that node's
\* path and symbols, and imports and importedBy lists as long as the
\* node's, whose k-th entry is the node's k-th entry written relative to
\* the root: the root followed by the entry is the stored path.
C17_RelationshipResult ==
    [][(Answered /\ PathResolve(rootDir, asked') \in KeysOf(nodes))
          => LET n == NodeOf(nodes, PathResolve(rootDir, asked'))
             IN  /\ reply'.found
                 /\ reply'.path = n.path
                 /\ reply'.symbols = n.symbols
                 /\ Len(reply'.imports) = Len(n.imports)
                 /\ Len(reply'.importedBy) = Len(n.importedBy)
                 /\ \A k \in 1..Len(n.imports) :
                        rootDir \o reply'.imports[k] = n.imports[k]
                 /\ \A k \in 1..Len(n.importedBy) :
                        rootDir \o reply'.importedBy[k] = n.importedBy[k]]_vars

\* C17 witness: with root /app and /app/index.ts importing './utils', the
\* query '/app/utils.ts' has returned importedBy ['index.ts'].
C17_Witness ==
    /\ rootDir = App
    /\ asked = Ref(TRUE, AppUtils)
    /\ reply.found
    /\ reply.path = AppUtils
    /\ reply.importedBy = << << <<"index", ".ts">> >> >>
    /\ NodeOf(nodes, AppUtils).importedBy = <<AppIndex>>

\* The node a summary entry stands for
Listed5(k) == rootDir \o summary.mostReferencedFiles[k].file

\* C18. Summary: getSummary has reported fileCount equal to the number of
\* nodes and a list of min(5, fileCount) entries that stand for distinct
\* nodes, each with the length of its node's importedBy list as count, in
\* non-increasing order of count, and no node left out of the list has a
\* longer importedBy list than a listed one.
C18_Summary ==
    summary # NoSummary
          => LET most == summary.mostReferencedFiles
             IN  /\ summary.fileCount = Len(nodes)
                 /\ Len(most) = (IF Len(nodes) < 5 THEN Len(nodes) ELSE 5)
                 /\ \A k \in 1..Len(most) :
                        /\ Listed5(k) \in KeysOf(nodes)
                        /\ most[k].referencedBy =
                               Len(NodeOf(nodes, Listed5(k)).importedBy)
                 /\ \A k, l \in 1..Len(most) :
                        /\ k # l => most[k].file # most[l].file
                        /\ k < l => most[k].referencedBy >= most[l].referencedBy
                 /\ \A i \in 1..Len(nodes) :
                        nodes[i].path \notin {Listed5(k) : k \in 1..Len(most)}
                        => \A k \in 1..Len(most) :
                               Len(nodes[i].importedBy) <= most[k].referencedBy

\* C18 witness: the graph has six nodes, the sixth in insertion order is the
\* only one with inbound edges, and the summary returned lists it first,
\* with count 2, among five entries.
C18_Witness ==
    /\ Len(nodes) = 6
    /\ Len(nodes[6].importedBy) = 2
    /\ summary.fileCount = 6
    /\ Len(summary.mostReferencedFiles) = 5
    /\ summary.mostReferencedFiles[1] =
           [file |-> << <<"f", ".ts">> >>, referencedBy |-> 2]

\* The position of a file in the order of analysis
Position(files, f) == CHOOSE i \in 1..Len(files) : files[i] = f

\* C19. Order independence of phase two: whatever the order in which a
\* build analyses its discovered files, the pairs (importer, imported) of
\* the graph it returns are the pairs the files' references name, in the
\* imports lists and in the importedBy lists alike; in particular the edge
\* from a file to one that is analysed after it is recorded.
C19_OrderIndependence ==
    \A c \in Calls :
        Returned(c) =>
            LET E == ExpectedEdges(call[c].arg, Range(call[c].files))
            IN  /\ ImportEdges(call[c].snap) \cup ImportedByEdges(call[c].snap) \subseteq E
                /\ E \subseteq ImportEdges(call[c].snap) \cap ImportedByEdges(call[c].snap)
                /\ \A e \in E :
                       Position(call[c].files, e[1]) < Position(call[c].files, e[2])
                       => Includes(NodeOf(call[c].snap, e[1]).imports, e[2])

\* C19 witness: a build of /app analysed /app/utils.ts, the last file of
\* its discovery, first; the file imports './index.ts', analysed after it,
\* and the build has returned with that edge.
C19_Witness ==
    \E c \in Calls :
        /\ Returned(c)
        /\ call[c].arg = App
        /\ call[c].files[1] = AppUtils
        /\ call[c].files[2] = SrcLib
        /\ <<AppUtils, AppIndex>> \in ImportEdges(call[c].snap)
        /\ <<AppUtils, AppIndex>> \in ImportedByEdges(call[c].snap)

\* C20. Thought journal append: a processThought call that returns, the
\* journal having been changed by no other call since it was made on a
\* history of length k, returns no error, leaves the history as those k
\* entries followed by the given thought, and reports thoughtHistoryLength
\* = k + 1.
C20_JournalAppend ==
    [][\A j \in JCalls :
          ( /\ jcall[j].pc # "done"
            /\ jcall'[j].pc = "done"
            /\ jcall'[j].op = "thought"
            /\ jcall'[j].alone )
          => LET given == jcall'[j].given
                 k == Len(jcall'[j].before)
             IN  /\ ~jcall'[j].result.isError
                 /\ Len(thoughtHistory') = k + 1
                 /\ SubSeq(thoughtHistory', 1, k) = jcall'[j].before
                 /\ thoughtHistory'[k + 1].thought = given.thought
                 /\ thoughtHistory'[k + 1].thoughtNumber = given.thoughtNumber
                 /\ thoughtHistory'[k + 1].branchId = given.branchId
                 /\ jcall'[j].result.thoughtHistoryLength = k + 1]_vars

\* C20 witness: a processThought call made on a history of two thoughts
\* has returned, alone, and reported a length of three.
C20_Witness ==
    \E j \in JCalls :
        /\ jcall[j].pc = "done"
        /\ jcall[j].op = "thought"
        /\ jcall[j].alone
        /\ Len(jcall[j].before) = 2
        /\ jcall[j].result.thoughtHistoryLength = 3
        /\ Len(thoughtHistory) = 3
        /\ thoughtHistory[3].thought = jcall[j].given.thought

\* The thoughts of the history that are the argument of the call j
StoredBy(j) == SelectSeq(thoughtHistory, LAMBDA t : t.obj = j)

\* C21. Dynamic adjustment: the thought a processThought call was given is
\* stored, and reported when the call returns, with totalThoughts raised to
\* its thoughtNumber when the thoughtNumber given exceeds the totalThoughts
\* given, and with the totalThoughts given otherwise.
C21_DynamicAdjustment ==
    \A j \in JCalls :
        jcall[j].op = "thought"
        => LET number == jcall[j].given.thoughtNumber
               total == jcall[j].given.totalThoughts
               expected == IF number > total THEN number ELSE total
           IN  /\ \A i \in 1..Len(StoredBy(j)) : StoredBy(j)[i].totalThoughts = expected
               /\ jcall[j].pc = "done" => jcall[j].result.totalThoughts = expected

\* C21 witness: a call given thought 4 of 3 has returned, the thought is in
\* the history, and both totals are 4.
C21_Witness ==
    \E j \in JCalls :
        /\ jcall[j].pc = "done"
        /\ jcall[j].op = "thought"
        /\ jcall[j].given.thoughtNumber = 4
        /\ jcall[j].given.totalThoughts = 3
        /\ jcall[j].result.totalThoughts = 4
        /\ Len(StoredBy(j)) = 1
        /\ StoredBy(j)[1].totalThoughts = 4

\* The text 'f-b' of a branch key
KeyText(f, b) == Digits(f) \o <<"-">> \o b

\* A thought carries both branch fields, whatever the branch id is
CarriesBoth(t) == t.branchFromThought # 0 /\ t.branchId # Absent

\* A thought carries both branch fields and its branch id is not empty
CarriesNamed(t) == CarriesBoth(t) /\ t.branchId[1] # << >>

\* The call j adds its thought to the journal in this step
Adds(j) ==
    /\ jcall[j].pc \in {"idle", "delay"}
    /\ jcall'[j].pc \in {"saving", "done"}
    /\ jcall'[j].op = "thought"

\* The call j returns in this step
Returns(j) == jcall[j].pc # "done" /\ jcall'[j].pc = "done"

\* Branching, where Carries tells the thoughts that are to make a branch:
\* the thought added is the last one under its key or the index is left as
\* it was; the response lists the keys of the index, each once; the keys
\* are those of the thoughts of the history that are to make a branch, and
\* the thoughts under one key agree on both fields.
BranchingStep(Carries(_)) ==
    \A j \in JCalls :
        /\ Adds(j)
           => LET t == jcall'[j].input
              IN  IF Carries(t)
                  THEN \E i \in 1..Len(branches') :
                          /\ branches'[i].key = KeyText(t.branchFromThought, t.branchId[1])
                          /\ branches'[i].thoughts[Len(branches'[i].thoughts)] = t
                  ELSE branches' = branches
        /\ (Returns(j) /\ jcall'[j].op = "thought")
           => LET reported == jcall'[j].result.branches
              IN  /\ Len(reported) = Len(branches')
                  /\ \A i \in 1..Len(reported) : reported[i] = branches'[i].key
                  /\ \A i, k \in 1..Len(reported) : reported[i] = reported[k] => i = k
                  /\ {reported[i] : i \in 1..Len(reported)}
                       = {KeyText(thoughtHistory'[n].branchFromThought,
                                  thoughtHistory'[n].branchId[1]) :
                            n \in {m \in 1..Len(thoughtHistory') : Carries(thoughtHistory'[m])}}
                  /\ \A i \in 1..Len(branches') :
                        \A m, n \in 1..Len(branches'[i].thoughts) :
                           LET u == branches'[i].thoughts[m]
                               v == branches'[i].thoughts[n]
                           IN  /\ u.branchFromThought = v.branchFromThought
                               /\ u.branchId = v.branchId

\* C22. Branching: a processThought call whose thought carries a
\* branchFromThought f and a branchId b that is not empty records the
\* thought under the key 'f-b'; the branches of each response are the keys
\* of the index at that moment, each once, which are the keys of the
\* thoughts of the history that carry both; two branch ids taken from one
\* thought are two keys; any other thought leaves the index as it was.
C22_Branching == [][BranchingStep(CarriesNamed)]_vars

\* C22 as stated: every thought that carries both fields makes a branch.
C22_BranchingAsStated == [][BranchingStep(CarriesBoth)]_vars

\* C22 witness: a call that branched from thought 1 as 'b' has returned and
\* reported the two branches '1-a' and '1-b'.
C22_Witness ==
    \E j \in JCalls :
        /\ jcall[j].pc = "done"
        /\ jcall[j].op = "thought"
        /\ jcall[j].given.branchFromThought = 1
        /\ jcall[j].given.branchId = Given(<<"b">>)
        /\ jcall[j].result.branches = << <<"1", "-", "a">>, <<"1", "-", "b">> >>
        /\ Len(branches) = 2
        /\ branches[2].thoughts[1].obj = j

\* The saveHistory calls between the serialisation and the end of the rename
Writing == {w \in Savers : save.run[w].phase # "none"}

\* The save w replaces the storage file in this step
Replaces(w) ==
    /\ save.run[w].phase = "rename"
    /\ save'.run[w].phase = "none"
    /\ storage.tmp # << >>

\* C23. Save mutual exclusion: in every interleaving of processThought,
\* clearHistory and archiveHistory calls, their saves and the retry timers,
\* at most one write-then-rename sequence is in flight, and the storage
\* file changes only when such a sequence ends, to the serialisation of the
\* history made when that sequence started.
C23_SaveMutualExclusion ==
    [][/\ Cardinality(Writing') <= 1
       /\ \A w \in Savers : Replaces(w) => storage'.file = save.run[w].data
       /\ storage'.file # storage.file => \E w \in Savers : Replaces(w)]_vars

\* C23 witness: a save is about to rename the serialisation it made when it
\* started, while a later call has changed the history and asked for a
\* retry.
C23_Witness ==
    \E w \in Savers :
        /\ save.run[w].phase = "rename"
        /\ storage.tmp = <<save.run[w].data>>
        /\ save.run[w].data # Serialized(thoughtHistory)
        /\ save.timers > 0
        /\ isSaving

\* No journal call is suspended
Quiet == \A j \in JCalls : ~InFlight(j)

\* C24. Automatic save: where file writes succeed, every file operation
\* answers and every timer fires, from some moment on the storage file
\* holds the serialisation of the history in memory; a save asked while
\* another was in flight has been retried by then.
C24_EventuallySaved ==
    storage.ok => <>[](storage.file = Serialized(thoughtHistory))

\* C24 witness: every call has returned, one of them while a save was in
\* flight, and the save begun by the retry timer is about to replace a
\* stale storage file by the current history.
C24_Witness ==
    /\ storage.ok
    /\ Quiet
    /\ \E j \in JCalls : jcall[j].pc = "done" /\ jcall[j].op \in {"thought", "clear"}
    /\ save.run[0].phase = "rename"
    /\ storage.tmp = <<Serialized(thoughtHistory)>>
    /\ storage.file # Serialized(thoughtHistory)

\* A thought but for its number
Unnumbered(t) == [t EXCEPT !.thoughtNumber = 0]

\* The call j is an archiveHistory call that gets past its range test and
\* changes the journal in this step
Archives(j) ==
    /\ jcall[j].pc = "idle"
    /\ jcall'[j].op = "archive"
    /\ ~jcall'[j].result.isError

C27_InvalidRangeUntouched ==
    [][\A j \in JCalls :
          LET s == jcall'[j].range[1]
              e == jcall'[j].range[2]
          IN  ( /\ jcall[j].pc = "idle"
                /\ jcall'[j].op = "archive"
                /\ (s < 1 \/ e > Len(thoughtHistory) \/ s > e) )
              => /\ jcall'[j].pc = "done"
                 /\ jcall'[j].result.isError
                 /\ UNCHANGED <<thoughtHistory, branches, storage, save, isSaving>>]_vars

\* C27 witness: archiveHistory(1, 2) on an empty history has failed, and
\* nothing is being saved.
C27_Witness ==
    \E j \in JCalls :
        /\ jcall[j].pc = "done"
        /\ jcall[j].op = "archive"
        /\ jcall[j].result.isError
        /\ jcall[j].range = <<1, 2>>
        /\ jcall[j].before = << >>
        /\ thoughtHistory = << >>
        /\ storage.file = << >>
        /\ Writing = {}

\* C29. Thought-number range invariant: every entry of the history has
\* 1 <= thoughtNumber <= totalThoughts, the summary entries and the entries
\* numbered down after them included.
C29_ThoughtNumberRange ==
    \A i \in 1..Len(thoughtHistory) :
        /\ 1 <= thoughtHistory[i].thoughtNumber
        /\ thoughtHistory[i].thoughtNumber <= thoughtHistory[i].totalThoughts

\* The entries of the history that carry branchFromThought f and the
\* optional branchId id, in history order
Carrying(f, id) ==
    SelectSeq(thoughtHistory, LAMBDA t : t.branchFromThought = f /\ t.branchId = id)

\* A branch index with the identity of its objects left out
Anonymous(br) ==
    [i \in 1..Len(br) |-> [key |-> br[i].key, thoughts |-> Serialized(br[i].thoughts)]]

\* The branch index is derived from the history, where Carries tells the
\* thoughts that are to be indexed: under the key 'f-b' it holds the
\* entries that carry f and b, in history order, it has no other key and no
\* key twice, and loading the serialised history gives the same index.
DerivedIndex(Carries(_)) ==
    /\ \A n \in 1..Len(thoughtHistory) :
          LET t == thoughtHistory[n]
          IN  Carries(t)
              => \E i \in 1..Len(branches) :
                    /\ branches[i].key = KeyText(t.branchFromThought, t.branchId[1])
                    /\ branches[i].thoughts = Carrying(t.branchFromThought, t.branchId)
    /\ \A i \in 1..Len(branches) :
          \E n \in 1..Len(thoughtHistory) :
             /\ Carries(thoughtHistory[n])
             /\ branches[i].key = KeyText(thoughtHistory[n].branchFromThought,
                                          thoughtHistory[n].branchId[1])
    /\ \A i, k \in 1..Len(branches) : branches[i].key = branches[k].key => i = k
    /\ Anonymous(LoadBranches(<< >>, Serialized(thoughtHistory))) = Anonymous(branches)

\* C30. Branch index is derived from the history: in every state reached
\* by load, processThought, archiveHistory and clearHistory, the index
\* holds under 'f-b' exactly the entries that carry branchFromThought f and
\* a branchId b that is not empty, in history order, and no other key;
\* loading the saved history gives the same index.
C30_BranchIndexDerived == DerivedIndex(CarriesNamed)

\* C30 as stated: every entry that carries both fields is indexed.
C30_BranchIndexAsStated == DerivedIndex(CarriesBoth)

\* C30 witness: archiveHistory has put a summary in the place of two
\* thoughts, one of them on branch '1-a', and the index holds the branch
\* '1-b' of the thought that is left, and nothing else.
C30_Witness ==
    /\ \E j \in JCalls :
          /\ jcall[j].op = "archive"
          /\ jcall[j].pc = "done"
          /\ ~jcall[j].result.isError
          /\ Len(jcall[j].before) = 3
    /\ Len(thoughtHistory) = 2
    /\ Len(branches) = 1
    /\ branches[1].key = <<"1", "-", "b">>
    /\ branches[1].thoughts = <<thoughtHistory[2]>>

\* A response that asks for another attempt: a 429 or a status of 500 or more
Retriable(outcome) ==
    outcome.thrown \/ outcome.status = 429 \/ outcome.status >= 500

FetchOver == fetch.pc \in {"returned", "thrown"}

\* C26. Retry policy: fetchWithRetry with the default budget makes at most
\* 4 attempts and ends; every attempt but the last one gave a thrown error,
\* a 429 or a status of 500 or more; a response of any other kind is
\* returned at once; after the fourth attempt the last response is returned
\* or the last error is thrown.
C26_RetryPolicy ==
    /\ [](LET n == Len(fetch.attempts)
          IN  /\ n <= 4
              /\ \A i \in 1..(n - 1) : Retriable(fetch.attempts[i])
              /\ (n > 0 /\ ~Retriable(fetch.attempts[n]))
                 => fetch.pc = "returned" /\ fetch.result = fetch.attempts[n]
              /\ n = 4
                 => /\ FetchOver
                    /\ fetch.result = fetch.attempts[n]
                    /\ fetch.pc = "thrown" <=> fetch.attempts[n].thrown
              /\ FetchOver => n > 0 /\ fetch.result = fetch.attempts[n])
    /\ (fetch.pc = "fetching" ~> FetchOver)

\* C26 witness: three server errors and a fourth one, which is returned.
C26_Witness ==
    /\ Len(fetch.attempts) = 4
    /\ \A i \in 1..4 : fetch.attempts[i] = Response(503, 0)
    /\ fetch.pc = "returned"
    /\ fetch.result = Response(503, 0)
    /\ fetch.waits = <<1000, 2000, 4000>>

\* The build c was rejected and no build has been called since
LastBuildFailed(c) ==
    /\ call[c].pc = "failed"
    /\ \A d \in Calls : d > c => call[d].pc = "idle"

\* C28. A failed build does not preserve the previous snapshot: after a
\* build that failed during directory enumeration, and until the next
\* build is called, the graph has no node and its root is the root of the
\* failed call; getRelationships finds no file that was a node of an
\* earlier build, asked by its absolute path or by its name, and getSummary
\* reports that root and fileCount 0.
C28_FailedBuildDropsSnapshot ==
    \A c \in Calls :
        LastBuildFailed(c)
        => /\ nodes = << >>
           /\ rootDir = call[c].arg
           /\ Summary(nodes, rootDir).fileCount = 0
           /\ Summary(nodes, rootDir).root = call[c].arg
           /\ Summary(nodes, rootDir).mostReferencedFiles = << >>
           /\ \A d \in Calls : \A p \in KeysOf(call[d].snap) :
                 /\ Relationships(nodes, rootDir, Ref(TRUE, p)) = NotFound
                 /\ Relationships(nodes, rootDir, Ref(FALSE, <<p[Len(p)]>>)) = NotFound

\* C28 witness: /app cannot be listed; build('/app/src') returned a graph
\* with /app/src/lib.ts, then build('/app') failed, and the graph is empty
\* with root /app.
C28_Witness ==
    \E c, d \in Calls :
        /\ d < c
        /\ unlistable = {App}
        /\ Returned(d)
        /\ call[d].arg = Src
        /\ SrcLib \in KeysOf(call[d].snap)
        /\ LastBuildFailed(c)
        /\ call[c].arg = App
        /\ nodes = << >>
        /\ rootDir = App
====
